---- MODULE Spec2Model ----
(***************************************************************************)
(* GEO Thrill-O-Meter: the crawl-and-score pipeline of src/server.js.      *)
(*                                                                         *)
(* Strings that the program takes apart (URLs, hrefs, body text, heading   *)
(* text) are sequences of lexical tokens, so that prefix tests, parsing    *)
(* and serialisation are computed, not assumed.  Strings that the program  *)
(* only builds and hands on (the details of a check) are TLA+ strings.     *)
(***************************************************************************)
EXTENDS Integers, Sequences, FiniteSets, TLC

VARIABLES
    startUrl,         \* crawlSite's argument (a token string)
    site,             \* the web site being crawled: name of a Sites entry
    pc,               \* where crawlSite is: idle, awaitHome, awaitPage, done, failed
    allPageResults,   \* crawlSite's allPageResults
    crawledUrls,      \* crawlSite's crawledUrls
    menuUrlsToCrawl,  \* crawlSite's menuUrlsToCrawl
    loopIdx,          \* index in menuUrlsToCrawl of the candidate being fetched
    inFlight,         \* URLs whose fetchHtml promise is still pending
    fetchLog,         \* history: every fetchHtml call, in call order
    errorLog,         \* what the catch block of crawlSite's loop has logged
    outcome,          \* crawlSite's result: NoValue, a thrown error, or a report
    aggInput,         \* processResults' argument in the aggregator specification
    aggOutput,        \* processResults' result in the aggregator specification
    checkInput,       \* runAllChecks' arguments in the page checker specification
    checkOutput,      \* runAllChecks' result in the page checker specification
    configured,       \* whether the server's environment variables are all set
    reportCache,      \* the server's reportCache: report id -> { report, url }
    timers,           \* report ids whose setTimeout callback is still pending
    uuidCount,        \* how many ids uuidv4 has handed out
    analyze,          \* per /api/analyze request: where it is and its answer
    ui,               \* what the browser page shows
    send,             \* the /api/send-report request being handled, or the last one
    mails             \* the messages the mailer has accepted

vars == <<startUrl, site, pc, allPageResults, crawledUrls, menuUrlsToCrawl,
          loopIdx, inFlight, fetchLog, errorLog, outcome, aggInput, aggOutput,
          checkInput, checkOutput, configured, reportCache, timers, uuidCount,
          analyze, ui, send, mails>>

crawlVars == <<startUrl, site, pc, allPageResults, crawledUrls, menuUrlsToCrawl,
               loopIdx, inFlight, fetchLog, errorLog, outcome>>

aggVars == <<aggInput, aggOutput>>

checkVars == <<checkInput, checkOutput>>

apiVars == <<configured, reportCache, timers, uuidCount, analyze, ui, send, mails>>

\* what a crawl leaves alone
pureVars == <<aggVars, checkVars, apiVars>>

NoValue == [kind |-> "none"]

-----------------------------------------------------------------------------
(* Generic helpers on sequences.                                           *)

IsPrefix(p, s) == Len(p) <= Len(s) /\ SubSeq(s, 1, Len(p)) = p

Contains(s, x) == \E i \in 1..Len(s) : s[i] = x

\* index of the first element of s equal to x, 0 when there is none
IndexOf(s, x) ==
    IF Contains(s, x) THEN CHOOSE i \in 1..Len(s) : s[i] = x /\ \A j \in 1..(i-1) : s[j] # x
    ELSE 0

\* p occurs in s as a run of consecutive elements
HasRun(s, p) == \E i \in 0..(Len(s) - Len(p)) : SubSeq(s, i + 1, i + Len(p)) = p

RECURSIVE SelectIdx(_, _, _)
\* the elements s[i] with i in keep, in order
SelectIdx(s, keep, i) ==
    IF i > Len(s) THEN <<>>
    ELSE (IF i \in keep THEN <<s[i]>> ELSE <<>>) \o SelectIdx(s, keep, i + 1)

RECURSIVE SumSeq(_)
SumSeq(s) == IF s = <<>> THEN 0 ELSE Head(s) + SumSeq(Tail(s))

RECURSIVE Flatten(_)
Flatten(ss) == IF ss = <<>> THEN <<>> ELSE Head(ss) \o Flatten(Tail(ss))

-----------------------------------------------------------------------------
(* URL strings.  A URL string is a sequence of tokens, for instance        *)
(*   <<"https:", "//", "a.com", "/", "about", "#", "team">>                *)
(* is "https://a.com/about#team".  ParseUrl is the WHATWG parser that      *)
(* `new URL(input, base)` runs, on the token shapes the hrefs of Hrefs and *)
(* the start URLs of StartUrls have; Href is its serialiser.               *)

SpecialSchemes == {"http:", "https:"}
OpaqueSchemes == {"mailto:", "about:"}
Schemes == SpecialSchemes \cup OpaqueSchemes
HostTokens == {"a.com", "A.COM", "b.org", ".evil"}
\* a host with a forbidden code point (a space): the host parser fails on it
BadHostTokens == {"exa mple"}
PortTokens == {":80", ":443", ":8080"}

\* String.prototype.toLowerCase, on the tokens that have upper-case letters
ToLowerCase(t) ==
    CASE t = "A.COM" -> "a.com"
      [] t = "What" -> "what"
      [] t = "HOW" -> "how"
      [] t = "You" -> "you"
      [] t = "YOUR" -> "your"
      [] t = "Updated" -> "updated"
      [] t = "Source:" -> "source:"
      [] t = "We" -> "we"
      [] t = "Your" -> "your"
      [] t = "YOU" -> "you"
      [] t = "How" -> "how"
      [] t = "Island" -> "island"
      [] t = "Our" -> "our"
      [] t = "Tickets" -> "tickets"
      [] OTHER -> t

LowerAll(s) == [i \in 1..Len(s) |-> ToLowerCase(s[i])]

DefaultPort(scheme) == IF scheme = "http:" THEN ":80" ELSE ":443"

RECURSIVE TakeWhile(_, _)
\* the longest prefix of s whose elements are all in S
TakeWhile(s, S) ==
    IF s = <<>> \/ Head(s) \notin S THEN <<>>
    ELSE <<Head(s)>> \o TakeWhile(Tail(s), S)

Drop(s, n) == SubSeq(s, n + 1, Len(s))

BeforeFragment(s) == IF Contains(s, "#") THEN SubSeq(s, 1, IndexOf(s, "#") - 1) ELSE s
HasFragment(s) == Contains(s, "#")
FragmentOf(s) == IF Contains(s, "#") THEN Drop(s, IndexOf(s, "#")) ELSE <<>>

\* a failed parse: `new URL` throws TypeError
Failure == [ok |-> FALSE]
NoBase == Failure

\* the tokens after "//", or none when the scheme is not followed by "//"
Authority(body) == IF body # <<>> /\ Head(body) = "//" THEN Tail(body) ELSE <<>>

\* the port token that opens rest, or "" when there is none
PortIn(rest) == IF rest # <<>> /\ Head(rest) \in PortTokens THEN Head(rest) ELSE ""

\* what follows the port in rest
PathIn(rest) == IF PortIn(rest) = "" THEN rest ELSE Tail(rest)

\* a special URL from its scheme, its host tokens and the body after the host
SpecialUrl(scheme, host, rest, s) ==
    IF host = <<>> \/ (\E i \in 1..Len(host) : host[i] \in BadHostTokens)
    THEN Failure
    ELSE [ok |-> TRUE, scheme |-> scheme, opaque |-> FALSE,
          host |-> LowerAll(host),
          port |-> IF PortIn(rest) = DefaultPort(scheme) THEN "" ELSE PortIn(rest),
          path |-> IF PathIn(rest) = <<>> THEN <<"/">> ELSE PathIn(rest),
          hasFrag |-> HasFragment(s), frag |-> FragmentOf(s)]

\* the host state of the parser: the host is the run of host tokens
ParseAuthority(scheme, auth, s) ==
    SpecialUrl(scheme, TakeWhile(auth, HostTokens \cup BadHostTokens),
               Drop(auth, Len(TakeWhile(auth, HostTokens \cup BadHostTokens))), s)

\* an absolute URL string: its first token is a scheme
ParseAbsolute(s) ==
    IF Head(s) \in OpaqueSchemes
    THEN [ok |-> TRUE, scheme |-> Head(s), opaque |-> TRUE, host |-> <<>>,
          port |-> "", path |-> BeforeFragment(Tail(s)),
          hasFrag |-> HasFragment(s), frag |-> FragmentOf(s)]
    ELSE ParseAuthority(Head(s), Authority(BeforeFragment(Tail(s))), s)

\* the path of base up to and including its last "/"
DirName(path) ==
    LET slashes == {i \in 1..Len(path) : path[i] = "/"}
    IN  IF slashes = {} THEN <<"/">>
        ELSE SubSeq(path, 1, CHOOSE i \in slashes : \A j \in slashes : j <= i)

\* u with the fragment of the reference s
WithFragment(u, s) == [u EXCEPT !.hasFrag = HasFragment(s), !.frag = FragmentOf(s)]

\* a relative reference s, of body `body` before its fragment, against a
\* successfully parsed base
Resolve(s, body, base) ==
    IF base.opaque
    THEN IF s # <<>> /\ Head(s) = "#" THEN WithFragment(base, s) ELSE Failure
    ELSE IF body = <<>> THEN WithFragment(base, s)
    ELSE IF Head(body) = "//" THEN ParseAbsolute(<<base.scheme>> \o s)
    ELSE IF Head(body) = "/" THEN WithFragment([base EXCEPT !.path = body], s)
    ELSE WithFragment([base EXCEPT !.path = DirName(base.path) \o body], s)

ParseRelative(s, base) == Resolve(s, BeforeFragment(s), base)

\* new URL(s, base): base is a parsed URL, or NoBase for the one-argument form
ParseUrl(s, base) ==
    IF s # <<>> /\ Head(s) \in Schemes THEN ParseAbsolute(s)
    ELSE IF ~base.ok THEN Failure
    ELSE ParseRelative(s, base)

\* url.origin
Origin(u) ==
    IF u.opaque THEN <<"null">>
    ELSE <<u.scheme, "//">> \o u.host \o (IF u.port = "" THEN <<>> ELSE <<u.port>>)

\* url.hostname
Hostname(u) == u.host

\* url.href
Href(u) ==
    (IF u.opaque THEN <<u.scheme>> ELSE Origin(u)) \o u.path
        \o (IF u.hasFrag THEN <<"#">> \o u.frag ELSE <<>>)

\* the assignment `urlObject.hash = ''` left out
ClearHashKeepsFragment(u) == u

\* url.hash = ''
ClearHash(u) == [u EXCEPT !.hasFrag = FALSE, !.frag = <<>>]

\* the document URL of `new JSDOM(html)` when no url option is given
AboutBlank == ParseAbsolute(<<"about:", "blank">>)

\* the serialised URL, or the attribute itself when resolving it failed
HrefOrAttr(u, attr) == IF u.ok THEN Href(u) ELSE attr

\* HTMLAnchorElement.href: the attribute resolved against the document URL,
\* or the attribute itself when that fails
AnchorHref(attr, docUrl) == HrefOrAttr(ParseUrl(attr, docUrl), attr)

-----------------------------------------------------------------------------
(* Parsed documents.  A document is a record of what the checks and the    *)
(* link extractor query:                                                   *)
(*   title     textContent of each <title> element                         *)
(*   metaDesc  content of each <meta name="description">                   *)
(*   h1, viewport, lists, tables, metaTime   element counts                *)
(*   anchors   records [hasHref, href, rel, within, inP]: within names the *)
(*             navLinkSelectors container the anchor sits in, or "none"    *)
(*   imgs      records [alt, src]                                          *)
(*   headings  textContent of each h2/h3, as tokens                        *)
(*   iframes   src attribute of each iframe, as tokens                     *)
(*   text      body.textContent: tokens, joined by single spaces           *)
(*   ldjson    each <script type="application/ld+json">: [parses, value]   *)

\* JSON values, as JSON.parse returns them
JAbsent == [kind |-> "undefined"]
JNull == [kind |-> "null"]
JStr(str) == [kind |-> "string", str |-> str]
JArr(items) == [kind |-> "array", items |-> items]
JObj(type, graph) == [kind |-> "object", type |-> type, graph |-> graph]

\* JavaScript truthiness of a JSON value
Truthy(v) ==
    /\ v.kind \notin {"undefined", "null"}
    /\ ~(v.kind = "string" /\ v.str = "")

\* String(v), as Array.prototype.join applies it to an element
ToJsString(v) ==
    CASE v.kind = "string" -> v.str
      [] v.kind \in {"undefined", "null"} -> ""
      [] v.kind = "array" -> "[array]"
      [] OTHER -> "[object Object]"

RECURSIVE Join(_, _)
\* Array.prototype.join on TLA+ strings
Join(strs, sep) ==
    IF strs = <<>> THEN ""
    ELSE IF Len(strs) = 1 THEN Head(strs)
    ELSE Head(strs) \o sep \o Join(Tail(strs), sep)

\* item['@type']: only an object has properties read from the JSON text
PropType(item) == IF item.kind = "object" THEN item.type ELSE JAbsent
PropGraph(json) == IF json.kind = "object" THEN json.graph ELSE JAbsent

RECURSIVE GraphTypes(_)
\* graph.forEach(item => { if (item['@type']) schemas.push(item['@type']) }):
\* reading a property of null throws, which ends the block and keeps the
\* pushes made so far
GraphTypes(items) ==
    IF items = <<>> THEN <<>>
    ELSE IF Head(items).kind \in {"null", "undefined"} THEN <<>>
    ELSE (IF Truthy(PropType(Head(items))) THEN <<PropType(Head(items))>> ELSE <<>>)
            \o GraphTypes(Tail(items))

\* const graph = json['@graph'] || [json]; graph.forEach(...): forEach of a
\* value that is no array throws
GraphOf(json, g) ==
    IF ~Truthy(g) THEN GraphTypes(<<json>>)
    ELSE IF g.kind = "array" THEN GraphTypes(g.items)
    ELSE <<>>

\* what one script block pushes on schemas
BlockTypes(block) ==
    IF ~block.parses THEN <<>>
    ELSE IF block.value.kind \in {"null", "undefined"} THEN <<>>
    ELSE GraphOf(block.value, PropGraph(block.value))

\* Array.prototype.flat(): one level
Flat(vals) ==
    Flatten([i \in 1..Len(vals) |->
                IF vals[i].kind = "array" THEN vals[i].items ELSE <<vals[i]>>])

getSchemaTypes(doc) ==
    Flat(Flatten([i \in 1..Len(doc.ldjson) |-> BlockTypes(doc.ldjson[i])]))

\* types.includes(name)
Includes(types, name) == \E i \in 1..Len(types) : types[i] = JStr(name)

-----------------------------------------------------------------------------
(* The regular expressions of the checks, on token text.                   *)

Terminators == {".", "!", "?", "?!", "..."}
Whitespace == {" ", "  "}

\* how many /\b\w+\b/ matches a token holds
WordsIn(tok) ==
    IF tok \in Terminators \cup Whitespace THEN 0
    ELSE IF tok = "hands-on" THEN 2
    ELSE 1

\* text.match(/\b\w+\b/g).length
CountWords(text) == SumSeq([i \in 1..Len(text) |-> WordsIn(text[i])])

\* text.match(/[^.!?]+[.!?]+/g).length: a match needs a character that is
\* no terminator before the terminators, which every terminator token but
\* one opening the text has (the space that joins it to the token before)
CountSentences(text) == Cardinality({i \in 2..Len(text) : text[i] \in Terminators})

\* text.match(/\byou\b|\byour\b/gi).length
CountPronouns(text) ==
    Cardinality({i \in 1..Len(text) : ToLowerCase(text[i]) \in {"you", "your"}})

\* regex.test(text) for an alternation of phrases, case-insensitive
TestPhrases(text, phrases) == \E p \in phrases : HasRun(LowerAll(text), p)

\* String.prototype.trim on token text
RECURSIVE TrimStart(_)
TrimStart(s) == IF s # <<>> /\ Head(s) \in Whitespace THEN TrimStart(Tail(s)) ELSE s
RECURSIVE TrimEnd(_)
TrimEnd(s) ==
    IF s # <<>> /\ s[Len(s)] \in Whitespace THEN TrimEnd(SubSeq(s, 1, Len(s) - 1)) ELSE s
Trim(s) == TrimEnd(TrimStart(s))

\* img.alt.trim() === '' for an alt attribute held as one TLA+ string
BlankAlt(alt) == alt \in {""} \cup Whitespace

questionWords ==
    <<"what", "how", "why", "when", "where", "is", "can", "do", "are", "which",
      "who", "does", "should">>

\* tok.startsWith(word), character-wise: a token starts with itself and
\* with the words that are proper character prefixes of it
TokenStartsWith(tok, word) ==
    \/ tok = word
    \/ <<tok, word>> \in {<<"island", "is">>, <<"does", "do">>, <<"dogs", "do">>,
                          <<"whatever", "what">>, <<"however", "how">>}

\* headingText.startsWith(word)
StartsWithWord(headingText, word) ==
    headingText # <<>> /\ TokenStartsWith(Head(headingText), word)

\* attr.includes(sub), for the attribute selectors a[href*="..."] and for
\* src.includes(platform): a token includes itself and the listed substrings
TokenIncludes(tok, sub) ==
    \/ tok = sub
    \/ <<tok, sub>> \in {<<"about:", "about">>, <<"about-us", "about">>,
                         <<"contact-us", "contact">>, <<"public.tableau", "tableau">>}

AttrIncludes(attr, sub) == \E i \in 1..Len(attr) : TokenIncludes(attr[i], sub)

-----------------------------------------------------------------------------
(* The page checker: the 19 checks of runAllChecks and their helpers.      *)

\* doc.querySelectorAll('a[href]')
AnchorsWithHref(doc) ==
    SelectIdx(doc.anchors, {i \in 1..Len(doc.anchors) : doc.anchors[i].hasHref}, 1)

\* the outcome of `new URL(...).hostname` inside a try block:
\* [ok |-> FALSE] when the constructor throws
HostOutcome(u) == IF u.ok THEN [ok |-> TRUE, host |-> Hostname(u)] ELSE [ok |-> FALSE]

\* new URL(link.href).hostname
LinkHost(link) == HostOutcome(ParseUrl(AnchorHref(link.href, AboutBlank), NoBase))

\* linkHost === pageHost
SameHost(linkHost, pageHost) == linkHost.ok /\ linkHost.host = pageHost

\* linkHost && linkHost !== pageHost
OtherHost(linkHost, pageHost) ==
    linkHost.ok /\ linkHost.host # <<>> /\ linkHost.host # pageHost

CountSameHost(page, links) ==
    IF ~page.ok THEN 0
    ELSE Cardinality({i \in 1..Len(links) : SameHost(LinkHost(links[i]), Hostname(page))})

countInternalLinks(doc, url) == CountSameHost(ParseUrl(url, NoBase), AnchorsWithHref(doc))

SomeOtherHost(page, links) ==
    IF ~page.ok THEN FALSE
    ELSE \E i \in 1..Len(links) : OtherHost(LinkHost(links[i]), Hostname(page))

hasOutboundLinks(doc, url) == SomeOtherHost(ParseUrl(url, NoBase), AnchorsWithHref(doc))

\* a result whose details are the failure text also on pass
CheckEchoesFailure(passed, failDetails) == [passed |-> passed, details |-> failDetails]

\* { passed, details: passed ? 'OK' : failDetails }
\* (the quotation marks inside the messages of the code are left out)
Check(passed, failDetails) ==
    [passed |-> passed, details |-> IF passed THEN "OK" ELSE failDetails]

checkTitleTag(doc) ==
    Check(doc.title # <<>> /\ Head(doc.title) # "", "No &lt;title&gt; tag found.")

checkMetaDescription(doc) ==
    Check(doc.metaDesc # <<>> /\ Head(doc.metaDesc) # "",
          "No &lt;meta name=description&gt; tag found.")

checkH1Heading(doc) ==
    Check(doc.h1 = 1, "Found " \o ToString(doc.h1) \o " &lt;h1&gt; tags (expected 1).")

checkViewport(doc) == Check(doc.viewport > 0, "Missing &lt;meta name=viewport&gt; tag.")

InternalLinksResult(count) ==
    Check(count > 2, "Found only " \o ToString(count) \o " internal links (recommend > 2).")

checkInternalLinks(doc, url) == InternalLinksResult(countInternalLinks(doc, url))

\* missingAlt.map(i => i.src).slice(0, 2).join(', ')
FirstTwoSrc(missingAlt) ==
    Join([i \in 1..(IF Len(missingAlt) < 2 THEN Len(missingAlt) ELSE 2) |-> missingAlt[i].src],
         ", ")

AltTextResult(missingAlt) ==
    Check(Len(missingAlt) = 0,
          "Found " \o ToString(Len(missingAlt)) \o " images missing alt text. e.g., "
            \o FirstTwoSrc(missingAlt))

checkAltText(doc) ==
    AltTextResult(SelectIdx(doc.imgs, {i \in 1..Len(doc.imgs) : BlankAlt(doc.imgs[i].alt)}, 1))

checkLists(doc) == Check(doc.lists > 0, "No bulleted or numbered lists found.")

\* a number of tenths as a decimal numeral with one fraction digit
Tenths(t) == ToString(t \div 10) \o "." \o ToString(t % 10)

\* score.toFixed(1) of the quotient words / sentences
ToFixed1(words, sentences) == Tenths((20 * words + sentences) \div (2 * sentences))

\* the closed upper end: passed is score <= 25 && score > 0
ReadabilityResultClosedRange(words, sentences) ==
    IF sentences = 0 \/ words = 0
    THEN [passed |-> FALSE,
          details |-> "High (Avg. " \o Tenths(0) \o " words/sentence). Recommend < 25."]
    ELSE IF words <= 25 * sentences /\ words > 0
    THEN [passed |-> TRUE,
          details |-> "Good (Avg. " \o ToFixed1(words, sentences) \o " words/sentence)."]
    ELSE [passed |-> FALSE,
          details |-> "High (Avg. " \o ToFixed1(words, sentences)
                        \o " words/sentence). Recommend < 25."]

\* score is 0 if a count is 0 and words / sentences otherwise;
\* passed is score < 25 && score > 0
ReadabilityResult(words, sentences) ==
    IF sentences = 0 \/ words = 0
    THEN [passed |-> FALSE,
          details |-> "High (Avg. " \o Tenths(0) \o " words/sentence). Recommend < 25."]
    ELSE IF words < 25 * sentences /\ words > 0
    THEN [passed |-> TRUE,
          details |-> "Good (Avg. " \o ToFixed1(words, sentences) \o " words/sentence)."]
    ELSE [passed |-> FALSE,
          details |-> "High (Avg. " \o ToFixed1(words, sentences)
                        \o " words/sentence). Recommend < 25."]

checkReadability(text) == ReadabilityResult(CountWords(text), CountSentences(text))

checkAuthor(doc) ==
    Check(\E i \in 1..Len(doc.anchors) :
            \/ /\ doc.anchors[i].hasHref
               /\ HasRun(doc.anchors[i].href, <<"author", "/">>)
            \/ doc.anchors[i].rel = "author",
          "No link to an author bio page found.")

checkExperience(text) ==
    Check(TestPhrases(text,
            {<<"in", "our", "test">>, <<"hands-on">>, <<"my", "experience">>,
             <<"we", "visited">>, <<"i", "found", "that">>,
             <<"our", "team", "reviewed">>, <<"we", "tested">>, <<"firsthand">>,
             <<"i", "personally">>, <<"from", "my", "experience">>}),
          "No phrases indicating first-hand experience found.")

checkFreshness(doc, text) ==
    Check(TestPhrases(text, {<<"updated">>, <<"published">>}) \/ doc.metaTime > 0,
          "No published or last updated date found.")

checkContact(doc) ==
    Check(\E i \in 1..Len(doc.anchors) :
            /\ doc.anchors[i].hasHref
            /\ \/ AttrIncludes(doc.anchors[i].href, "contact")
               \/ AttrIncludes(doc.anchors[i].href, "about"),
          "No link to a Contact or About page found.")

checkOutboundLinks(doc, url) ==
    Check(hasOutboundLinks(doc, url), "No links to external websites found.")

checkSchemaFound(types) ==
    IF Len(types) > 0
    THEN [passed |-> TRUE,
          details |-> "Found: " \o Join([i \in 1..Len(types) |-> ToJsString(types[i])], ", ")]
    ELSE [passed |-> FALSE, details |-> "No Schema.org data found."]

checkArticleOrgSchema(types) ==
    Check(Includes(types, "Article") \/ Includes(types, "Organization"),
          "Missing essential Article or Organization schema.")

checkFaqHowToSchema(types) ==
    Check(Includes(types, "FAQPage") \/ Includes(types, "HowTo"),
          "Missing high-value FAQ or How-To schema.")

\* Array.from(headings).some(h => questionWords.some(word =>
\*     h.textContent.trim().toLowerCase().startsWith(word)))
HasQuestionHeadings(doc) ==
    \E h \in 1..Len(doc.headings) : \E w \in 1..Len(questionWords) :
        StartsWithWord(LowerAll(Trim(doc.headings[h])), questionWords[w])

\* the threshold one lower: pronounCount >= 5
PronounResultFromFive(pronounCount) ==
    IF pronounCount >= 5
    THEN [passed |-> TRUE,
          details |-> "OK (Found " \o ToString(pronounCount) \o " second-person pronouns)."]
    ELSE [passed |-> FALSE,
          details |-> "No question-based subheadings or significant use of second-person pronouns (you/your) found."]

PronounResult(pronounCount) ==
    IF pronounCount > 5
    THEN [passed |-> TRUE,
          details |-> "OK (Found " \o ToString(pronounCount) \o " second-person pronouns)."]
    ELSE [passed |-> FALSE,
          details |-> "No question-based subheadings or significant use of second-person pronouns (you/your) found."]

checkConversationalTone(doc, text) ==
    IF HasQuestionHeadings(doc)
    THEN [passed |-> TRUE, details |-> "OK (Found question-based subheadings)."]
    ELSE PronounResult(CountPronouns(text))

vizPlatforms == <<"tableau", "datawrapper", "sheets.google.com", "fusiontables.google.com">>

checkUniqueData(doc, text) ==
    IF TestPhrases(text,
            {<<"our", "data">>, <<"our", "research">>, <<"we", "surveyed">>,
             <<"according", "to", "our", "study">>, <<"we", "analyzed">>,
             <<"our", "findings", "show">>, <<"in", "our", "analysis">>})
    THEN [passed |-> TRUE, details |-> "OK (Found keywords indicating original research)."]
    ELSE IF doc.tables > 0
    THEN [passed |-> TRUE, details |-> "OK (Found an HTML &lt;table&gt; element)."]
    ELSE IF \E i \in 1..Len(doc.iframes) : \E p \in 1..Len(vizPlatforms) :
                AttrIncludes(doc.iframes[i], vizPlatforms[p])
    THEN [passed |-> TRUE, details |-> "OK (Found an embedded data visualization)."]
    ELSE [passed |-> FALSE,
          details |-> "No signals of original data, research, or visualizations found."]

\* pageHost is new URL(doc.baseURI).hostname, and the document URL is about:blank
checkCitations(doc, text) ==
    IF TestPhrases(text, {<<"source:">>, <<"according", "to:">>, <<"citation:">>})
    THEN [passed |-> TRUE, details |-> "OK (Found citation keywords)."]
    ELSE IF \E i \in 1..Len(doc.anchors) :
                /\ doc.anchors[i].inP
                /\ OtherHost(LinkHost(doc.anchors[i]), Hostname(AboutBlank))
    THEN [passed |-> TRUE, details |-> "OK (Found outbound links within paragraph text)."]
    ELSE [passed |-> FALSE,
          details |-> "No cited sources or contextual outbound links found in paragraphs."]

Named(name, r) == [name |-> name, passed |-> r.passed, details |-> r.details]

\* the array literal of runAllChecks
\* the list with the two schema-type checks run only when a schema was found
CheckListSkipsSchemaChecks(doc, url, textContent, schemaTypes) ==
    << Named("Title Tag", checkTitleTag(doc)),
       Named("Meta Description", checkMetaDescription(doc)),
       Named("H1 Heading", checkH1Heading(doc)),
       Named("Mobile-Friendly Viewport", checkViewport(doc)),
       Named("Internal Linking", checkInternalLinks(doc, url)),
       Named("Image Alt Text", checkAltText(doc)),
       Named("Conversational Tone", checkConversationalTone(doc, textContent)),
       Named("Clear Structure (Lists)", checkLists(doc)),
       Named("Readability", checkReadability(textContent)),
       Named("Unique Data/Insights", checkUniqueData(doc, textContent)),
       Named("Author Byline/Bio", checkAuthor(doc)),
       Named("First-Hand Experience", checkExperience(textContent)),
       Named("Content Freshness", checkFreshness(doc, textContent)),
       Named("Contact Information", checkContact(doc)),
       Named("Outbound Links", checkOutboundLinks(doc, url)),
       Named("Cited Sources", checkCitations(doc, textContent)),
       Named("Schema Found", checkSchemaFound(schemaTypes)) >>
    \o (IF schemaTypes = <<>> THEN <<>>
        ELSE << Named("Article or Org Schema", checkArticleOrgSchema(schemaTypes)),
                Named("FAQ or How-To Schema", checkFaqHowToSchema(schemaTypes)) >>)

CheckList(doc, url, textContent, schemaTypes) ==
    << Named("Title Tag", checkTitleTag(doc)),
       Named("Meta Description", checkMetaDescription(doc)),
       Named("H1 Heading", checkH1Heading(doc)),
       Named("Mobile-Friendly Viewport", checkViewport(doc)),
       Named("Internal Linking", checkInternalLinks(doc, url)),
       Named("Image Alt Text", checkAltText(doc)),
       Named("Conversational Tone", checkConversationalTone(doc, textContent)),
       Named("Clear Structure (Lists)", checkLists(doc)),
       Named("Readability", checkReadability(textContent)),
       Named("Unique Data/Insights", checkUniqueData(doc, textContent)),
       Named("Author Byline/Bio", checkAuthor(doc)),
       Named("First-Hand Experience", checkExperience(textContent)),
       Named("Content Freshness", checkFreshness(doc, textContent)),
       Named("Contact Information", checkContact(doc)),
       Named("Outbound Links", checkOutboundLinks(doc, url)),
       Named("Cited Sources", checkCitations(doc, textContent)),
       Named("Schema Found", checkSchemaFound(schemaTypes)),
       Named("Article or Org Schema", checkArticleOrgSchema(schemaTypes)),
       Named("FAQ or How-To Schema", checkFaqHowToSchema(schemaTypes)) >>

runAllChecks(doc, url) == CheckList(doc, url, doc.text, getSchemaTypes(doc))

-----------------------------------------------------------------------------
(* The link extractor.                                                     *)

\* the containers named by navLinkSelectors:
\* 'nav a, [id*="nav"] a, [id*="menu"] a, [class*="nav"] a, [class*="menu"] a'
navLinkSelectors == {"nav", "id-nav", "id-menu", "class-nav", "class-menu"}

\* the selectors in the order of the selector list
TierOrder == <<"nav", "id-nav", "id-menu", "class-nav", "class-menu">>

\* the first selector of the list that matches an anchor of doc ("none" when
\* no selector does)
FirstTier(doc) ==
    IF \A t \in 1..Len(TierOrder) : \A i \in 1..Len(doc.anchors) : doc.anchors[i].within # TierOrder[t]
    THEN "none"
    ELSE TierOrder[CHOOSE t \in 1..Len(TierOrder) :
                      /\ \E i \in 1..Len(doc.anchors) : doc.anchors[i].within = TierOrder[t]
                      /\ \A t2 \in 1..(t - 1) : \A i \in 1..Len(doc.anchors) :
                             doc.anchors[i].within # TierOrder[t2]]

\* querySelectorAll with the first matching selector only
NavAnchorsFirstTier(doc) ==
    SelectIdx(doc.anchors,
              {i \in 1..Len(doc.anchors) : doc.anchors[i].within = FirstTier(doc)
                                           /\ FirstTier(doc) # "none"}, 1)

\* doc.querySelectorAll(navLinkSelectors): one selector list, document order
NavAnchors(doc) ==
    SelectIdx(doc.anchors,
              {i \in 1..Len(doc.anchors) : doc.anchors[i].within \in navLinkSelectors}, 1)

\* links.add(x) on a Set kept in insertion order
SetAdd(links, x) == IF Contains(links, x) THEN links ELSE Append(links, x)

\* if (cleanUrl.startsWith(siteOrigin) && !crawledUrls.has(cleanUrl)) links.add(cleanUrl)
KeepLink(links, cleanUrl, siteOrigin, crawled) ==
    IF IsPrefix(siteOrigin, cleanUrl) /\ cleanUrl \notin crawled
    THEN SetAdd(links, cleanUrl)
    ELSE links

\* urlObject.hash = ''; const cleanUrl = urlObject.href: a constructor that
\* threw has left the callback through the catch block
CleanLink(links, urlObject, siteOrigin, crawled) ==
    IF ~urlObject.ok THEN links
    ELSE KeepLink(links, Href(ClearHash(urlObject)), siteOrigin, crawled)

\* the body of the forEach callback for one anchor: the links afterwards
MenuLinkStep(links, link, start, crawled) ==
    IF ~link.hasHref \/ link.href = <<>> \/ Head(link.href) = "#" THEN links
    ELSE CleanLink(links, ParseUrl(link.href, ParseUrl(start, NoBase)),
                   Origin(ParseUrl(start, NoBase)), crawled)

RECURSIVE MenuLinkFold(_, _, _, _)
MenuLinkFold(links, anchors, start, crawled) ==
    IF anchors = <<>> THEN links
    ELSE MenuLinkFold(MenuLinkStep(links, Head(anchors), start, crawled),
                      Tail(anchors), start, crawled)

findMenuLinks(doc, start, crawled) ==
    MenuLinkFold(<<>>, NavAnchors(doc), start, crawled)

-----------------------------------------------------------------------------
(* The result aggregator.  detailedReport is a JavaScript object with      *)
(* string keys: a list of entries in insertion order.                      *)

HasKey(report, name) == \E i \in 1..Len(report) : report[i].name = name

KeyIndex(report, name) == CHOOSE i \in 1..Len(report) : report[i].name = name

\* a detailedReport that puts a new entry in front of the ones it has
WithEntryInFront(report, name) ==
    IF HasKey(report, name) THEN report
    ELSE <<[name |-> name, passedCount |-> 0, totalCount |-> 0, failures |-> <<>>]>> \o report

\* detailedReport with an entry for name: the one it has, or a new one
WithEntry(report, name) ==
    IF HasKey(report, name) THEN report
    ELSE Append(report, [name |-> name, passedCount |-> 0, totalCount |-> 0,
                         failures |-> <<>>])

\* the counting with `failures = [...]` in place of `failures.push(...)`
CountKeepsLastFailure(report, k, url, check) ==
    [report EXCEPT ![k] =
        IF check.passed
        THEN [@ EXCEPT !.totalCount = @ + 1, !.passedCount = @ + 1]
        ELSE [@ EXCEPT !.totalCount = @ + 1,
                       !.failures = <<[url |-> url, details |-> check.details]>>]]

\* the counting of one check result in the entry at index k
Count(report, k, url, check) ==
    [report EXCEPT ![k] =
        IF check.passed
        THEN [@ EXCEPT !.totalCount = @ + 1, !.passedCount = @ + 1]
        ELSE [@ EXCEPT !.totalCount = @ + 1,
                       !.failures = Append(@, [url |-> url, details |-> check.details])]]

CountIn(report, url, check) == Count(report, KeyIndex(report, check.name), url, check)

\* the callback with totalCount++ moved into the `if (check.passed)` branch
AccumulateCheckCountsPasses(acc, url, check) ==
    [detailedReport |->
        IF check.passed
        THEN CountIn(WithEntry(acc.detailedReport, check.name), url, check)
        ELSE [CountIn(WithEntry(acc.detailedReport, check.name), url, check)
                 EXCEPT ![KeyIndex(WithEntry(acc.detailedReport, check.name), check.name)]
                            .totalCount = @ - 1],
     totalChecks |-> acc.totalChecks + 1,
     totalPasses |-> IF check.passed THEN acc.totalPasses + 1 ELSE acc.totalPasses]

\* the body of the inner forEach callback for one check result of one page;
\* acc holds detailedReport and the counters totalPasses and totalChecks
AccumulateCheck(acc, url, check) ==
    [detailedReport |-> CountIn(WithEntry(acc.detailedReport, check.name), url, check),
     totalChecks |-> acc.totalChecks + 1,
     totalPasses |-> IF check.passed THEN acc.totalPasses + 1 ELSE acc.totalPasses]

RECURSIVE AccumulateChecks(_, _, _)
\* pageResult.checks.forEach(...); the counters are never negative, and the
\* first test only makes TLC evaluate acc before it recurses (a chain of
\* unevaluated accumulators overflows its stack)
AccumulateChecks(acc, url, checks) ==
    IF acc.totalChecks < 0 \/ checks = <<>> THEN acc
    ELSE AccumulateChecks(AccumulateCheck(acc, url, Head(checks)), url, Tail(checks))

RECURSIVE AccumulatePages(_, _)
\* allPageResults.forEach(...)
AccumulatePages(acc, pages) ==
    IF acc.totalChecks < 0 \/ pages = <<>> THEN acc
    ELSE AccumulatePages(AccumulateChecks(acc, Head(pages).url, Head(pages).checks),
                         Tail(pages))

\* Math.floor in place of Math.round
FloorPercent(totalPasses, totalChecks) == (100 * totalPasses) \div totalChecks

\* Math.round((totalPasses / totalChecks) * 100) for 0 <= totalPasses <= totalChecks:
\* Math.round rounds to the nearest integer, halves towards +infinity
RoundPercent(totalPasses, totalChecks) ==
    (200 * totalPasses + totalChecks) \div (2 * totalChecks)

\* the object with a score of 100 when there is nothing to score
ReportFullMarksWhenEmpty(acc, pagesCrawled) ==
    [summary |->
        [averageScore |-> IF acc.totalChecks > 0
                          THEN (200 * acc.totalPasses + acc.totalChecks)
                                   \div (2 * acc.totalChecks)
                          ELSE 100,
         checkStats |-> [i \in 1..Len(acc.detailedReport) |->
                            [name |-> acc.detailedReport[i].name,
                             passed |-> acc.detailedReport[i].passedCount,
                             total |-> acc.detailedReport[i].totalCount]]],
     detailedReport |-> acc.detailedReport,
     pagesCrawled |-> pagesCrawled]

\* the object processResults returns, from what the loops have accumulated
Report(acc, pagesCrawled) ==
    [summary |->
        [averageScore |-> IF acc.totalChecks > 0
                          THEN RoundPercent(acc.totalPasses, acc.totalChecks) ELSE 0,
         checkStats |-> [i \in 1..Len(acc.detailedReport) |->
                            [name |-> acc.detailedReport[i].name,
                             passed |-> acc.detailedReport[i].passedCount,
                             total |-> acc.detailedReport[i].totalCount]]],
     detailedReport |-> acc.detailedReport,
     pagesCrawled |-> pagesCrawled]

processResults(pages) ==
    Report(AccumulatePages([detailedReport |-> <<>>, totalPasses |-> 0, totalChecks |-> 0],
                           pages),
           Len(pages))

-----------------------------------------------------------------------------
(* The inputs: start URLs, documents and web sites.                        *)

\* links on the home page of the site "big": more than the crawl has room for
BigSiteLinks == 11
\* pages in a list handed to processResults in SpecAgg
MaxAggPages == 3
\* h1 elements in a document of SpecChecks
MaxH1 == 2

HomeUrl == <<"https:", "//", "a.com", "/">>

StartUrls ==
    { HomeUrl,
      <<"https:", "//", "a.com">>,              \* accepted, not in serialised form
      <<"a.com">>,                              \* no scheme: new URL throws
      <<"https:", "//", "exa mple", "/">> }     \* forbidden host: new URL throws

Anchor(href, within) ==
    [hasHref |-> TRUE, href |-> href, rel |-> "", within |-> within, inP |-> FALSE]

EmptyDoc ==
    [title |-> <<>>, metaDesc |-> <<>>, h1 |-> 0, viewport |-> 0, lists |-> 0,
     tables |-> 0, metaTime |-> 0, anchors |-> <<>>, imgs |-> <<>>,
     headings |-> <<>>, iframes |-> <<>>, text |-> <<>>, ldjson |-> <<>>]

PageToken(i) == "p" \o ToString(i)

HomeBig ==
    [EmptyDoc EXCEPT
        !.title = <<"Big">>, !.h1 = 1, !.viewport = 1,
        !.anchors = [i \in 1..BigSiteLinks |-> Anchor(<<"/", PageToken(i)>>, "nav")],
        !.text = <<"Welcome", "to", "our", "park", ".">>]

HomeSmall ==
    [EmptyDoc EXCEPT
        !.title = <<"Small">>, !.metaDesc = <<"A small site">>, !.h1 = 2,
        !.anchors =
            << Anchor(<<"/", "about">>, "nav"),
               Anchor(<<"https:", "//", "a.com", "/", "contact">>, "class-menu"),
               Anchor(<<"/", "about", "#", "team">>, "nav"),
               Anchor(<<"#", "top">>, "nav"),
               Anchor(<<"https:", "//", "exa mple", "/">>, "nav"),
               Anchor(<<"https:", "//", "b.org", "/">>, "id-menu"),
               Anchor(<<"https:", "//", "a.com", ".evil", "/">>, "nav"),
               Anchor(<<"/">>, "id-nav"),
               [hasHref |-> FALSE, href |-> <<>>, rel |-> "", within |-> "nav",
                inP |-> FALSE],
               Anchor(<<"/", "blog">>, "none") >>,
        !.imgs = << [alt |-> "", src |-> "logo.png"] >>,
        !.text = <<"You", "can", "visit", "us", "!">>]

RichDoc ==
    [EmptyDoc EXCEPT
        !.title = <<"Rides">>, !.metaDesc = <<"All rides">>, !.h1 = 1, !.viewport = 1,
        !.lists = 2, !.tables = 1, !.metaTime = 1,
        !.anchors =
            << Anchor(<<"https:", "//", "a.com", "/", "rides">>, "nav"),
               Anchor(<<"https:", "//", "A.COM", "/", "about">>, "nav"),
               Anchor(<<"https:", "//", "a.com", "/", "author", "/", "jo">>, "none"),
               [Anchor(<<"https:", "//", "b.org", "/", "study">>, "none")
                    EXCEPT !.inP = TRUE] >>,
        !.imgs = << [alt |-> "A ride", src |-> "ride.png"] >>,
        !.headings = << <<" ", "What", "is", "new">> >>,
        !.text = <<"We", "tested", "every", "ride", ".", "Updated", "today", ".",
                   "Source:", "our", "data", ".">>,
        !.ldjson = << [parses |-> TRUE,
                       value |-> JObj(JArr(<<JStr("Article"), JStr("FAQPage")>>), JAbsent)] >>]

PoorDoc ==
    [EmptyDoc EXCEPT
        !.title = <<"">>, !.h1 = 2,
        !.anchors = << Anchor(<<"https:", "//">>, "none"),
                       Anchor(<<"/", "about">>, "none") >>,
        !.imgs = << [alt |-> " ", src |-> "a.png"], [alt |-> "", src |-> ""],
                    [alt |-> "", src |-> "c.png"] >>,
        !.text = <<"no", "sentence", "here">>,
        !.ldjson = << [parses |-> FALSE, value |-> JAbsent] >>]

AboutDoc ==
    [EmptyDoc EXCEPT
        !.title = <<"About">>, !.h1 = 1, !.lists = 1,
        !.anchors = << Anchor(<<"/", "contact">>, "nav"),
                       Anchor(<<"mailto:", "jo">>, "none") >>,
        !.text = <<"You", "and", "your", "team", ".", "You", "you", "YOUR", "your", "?">>,
        !.ldjson = << [parses |-> TRUE,
                       value |-> JObj(JAbsent, JArr(<<JObj(JStr("Organization"), JAbsent)>>))] >>]

\* a response that `new JSDOM` or runAllChecks throws on
Unparseable == [kind |-> "unparseable"]

Sites == {"big", "small", "empty", "broken"}

\* what the scraper returns for the start page of a site
HomeDoc(s) ==
    CASE s = "big" -> HomeBig
      [] s = "small" -> HomeSmall
      [] s = "broken" -> Unparseable
      [] OTHER -> EmptyDoc

\* what the scraper returns for a secondary page
PageDoc(url) ==
    LET last == url[Len(url)]
    IN  CASE last = "about" -> AboutDoc
          [] last = "contact" -> PoorDoc
          [] last \in {PageToken(i) : i \in {1, 3, 5, 7, 9, 11, 13}} -> RichDoc
          [] last \in {PageToken(i) : i \in {2, 6, 10}} -> PoorDoc
          [] last \in {PageToken(i) : i \in {4, 8}} -> Unparseable
          [] OTHER -> EmptyDoc

-----------------------------------------------------------------------------
(* The crawl orchestrator: crawlSite, one action per stretch of code       *)
(* between two awaits.                                                     *)

\* the literal of `if (crawledUrls.size >= 10) break`
PageBudget == 10

Thrown(what) == [kind |-> "error", error |-> what]
Returned(report) == [kind |-> "report", report |-> report]

\* the loop body fetching without `crawledUrls.add(url)`
ResumeAtWithoutMark(results, crawled, menu, j) ==
    /\ allPageResults' = results
    /\ menuUrlsToCrawl' = menu
    /\ crawledUrls' = crawled
    /\ IF j = 0
       THEN /\ pc' = "done"
            /\ outcome' = Returned(processResults(results))
            /\ inFlight' = {}
            /\ loopIdx' = 0
            /\ fetchLog' = fetchLog
       ELSE /\ pc' = "awaitPage"
            /\ outcome' = outcome
            /\ inFlight' = {menu[j]}
            /\ loopIdx' = j
            /\ fetchLog' = Append(fetchLog, menu[j])

RECURSIVE NextCandidateUncapped(_, _, _)
\* the for loop without its `if (crawledUrls.size >= 10) break`
NextCandidateUncapped(menu, crawled, i) ==
    IF i > Len(menu) THEN 0
    ELSE IF menu[i] \in crawled THEN NextCandidateUncapped(menu, crawled, i + 1)
    ELSE i

RECURSIVE NextCandidate(_, _, _)
\* the for loop from candidate i up to its next fetchHtml call: the index of
\* the candidate that is fetched, or 0 when the loop ends (break, or no
\* candidate left)
NextCandidate(menu, crawled, i) ==
    IF i > Len(menu) THEN 0
    ELSE IF Cardinality(crawled) >= PageBudget THEN 0
    ELSE IF menu[i] \in crawled THEN NextCandidate(menu, crawled, i + 1)
    ELSE i

\* crawlSite at its next await (the fetch of candidate j), or at its return
\* (j = 0)
ResumeAt(results, crawled, menu, j) ==
    /\ allPageResults' = results
    /\ menuUrlsToCrawl' = menu
    /\ IF j = 0
       THEN /\ pc' = "done"
            /\ outcome' = Returned(processResults(results))
            /\ crawledUrls' = crawled
            /\ inFlight' = {}
            /\ loopIdx' = 0
            /\ fetchLog' = fetchLog
       ELSE /\ pc' = "awaitPage"
            /\ outcome' = outcome
            /\ crawledUrls' = crawled \cup {menu[j]}
            /\ inFlight' = {menu[j]}
            /\ loopIdx' = j
            /\ fetchLog' = Append(fetchLog, menu[j])

\* crawlSite from the top of the iteration for candidate i to its next await,
\* or to its return
Resume(results, crawled, menu, i) ==
    ResumeAt(results, crawled, menu, NextCandidate(menu, crawled, i))

\* crawlSite is called: `new URL(startUrl).origin`, then fetchHtml(startUrl)
CrawlStart ==
    /\ pc = "idle"
    /\ IF ParseUrl(startUrl, NoBase).ok
       THEN /\ pc' = "awaitHome"
            /\ inFlight' = {startUrl}
            /\ fetchLog' = Append(fetchLog, startUrl)
            /\ outcome' = outcome
       ELSE /\ pc' = "failed"
            /\ outcome' = Thrown("Invalid URL")
            /\ UNCHANGED <<inFlight, fetchLog>>
    /\ UNCHANGED <<startUrl, site, allPageResults, crawledUrls, menuUrlsToCrawl,
                   loopIdx, errorLog, pureVars>>

\* a rejected start-page fetch handled like the catch block of the loop
\* handles a secondary one: the crawl goes on to its report
HomeFetchFailsSoftly ==
    /\ pc = "awaitHome"
    /\ Resume(allPageResults, {startUrl}, <<>>, 1)
    /\ UNCHANGED <<startUrl, site, errorLog, pureVars>>

\* the start page's fetch rejects (network error, HTTP error, timeout)
HomeFetchFails ==
    /\ pc = "awaitHome"
    /\ pc' = "failed"
    /\ outcome' = Thrown("fetch failed")
    /\ inFlight' = {}
    /\ UNCHANGED <<startUrl, site, allPageResults, crawledUrls, menuUrlsToCrawl,
                   loopIdx, fetchLog, errorLog, pureVars>>

\* the start page arrives and `new JSDOM` or runAllChecks throws on it
HomeParseFails ==
    /\ pc = "awaitHome"
    /\ HomeDoc(site) = Unparseable
    /\ pc' = "failed"
    /\ outcome' = Thrown("parse failed")
    /\ inFlight' = {}
    /\ UNCHANGED <<startUrl, site, allPageResults, crawledUrls, menuUrlsToCrawl,
                   loopIdx, fetchLog, errorLog, pureVars>>

\* the start page arrives: it is checked and recorded, the menu links are
\* extracted, and the loop runs up to the first secondary fetch
HomeArrives ==
    /\ pc = "awaitHome"
    /\ HomeDoc(site) # Unparseable
    /\ Resume(Append(allPageResults,
                     [url |-> startUrl, checks |-> runAllChecks(HomeDoc(site), startUrl)]),
              {startUrl},
              findMenuLinks(HomeDoc(site), startUrl, {startUrl}),
              1)
    /\ UNCHANGED <<startUrl, site, errorLog, pureVars>>

\* the page that answers the fetch of url, checked
PageResult(url) == [url |-> url, checks |-> runAllChecks(PageDoc(url), url)]

\* a secondary page recorded with unshift instead of push
PageArrivesInFront ==
    /\ pc = "awaitPage"
    /\ PageDoc(menuUrlsToCrawl[loopIdx]) # Unparseable
    /\ Resume(<<PageResult(menuUrlsToCrawl[loopIdx])>> \o allPageResults,
              crawledUrls, menuUrlsToCrawl, loopIdx + 1)
    /\ UNCHANGED <<startUrl, site, errorLog, pureVars>>

\* a secondary page arrives and is checked and recorded
PageArrives ==
    /\ pc = "awaitPage"
    /\ PageDoc(menuUrlsToCrawl[loopIdx]) # Unparseable
    /\ Resume(Append(allPageResults, PageResult(menuUrlsToCrawl[loopIdx])),
              crawledUrls, menuUrlsToCrawl, loopIdx + 1)
    /\ UNCHANGED <<startUrl, site, errorLog, pureVars>>

\* console.error(`Failed to crawl menu page ${url}:`, error.message)
Logged(url, message) == Append(errorLog, [url |-> url, message |-> message])

\* a rejected secondary fetch with the try block around the whole loop: the
\* first failure ends the loop
PageFetchFailsEndsLoop ==
    /\ pc = "awaitPage"
    /\ errorLog' = Logged(menuUrlsToCrawl[loopIdx], "fetch failed")
    /\ ResumeAt(allPageResults, crawledUrls, menuUrlsToCrawl, 0)
    /\ UNCHANGED <<startUrl, site, pureVars>>

\* a secondary fetch rejects (network error, HTTP error, timeout): the catch
\* block logs, the loop goes on
PageFetchFails ==
    /\ pc = "awaitPage"
    /\ errorLog' = Logged(menuUrlsToCrawl[loopIdx], "fetch failed")
    /\ Resume(allPageResults, crawledUrls, menuUrlsToCrawl, loopIdx + 1)
    /\ UNCHANGED <<startUrl, site, pureVars>>

\* a secondary page arrives and `new JSDOM` or runAllChecks throws on it:
\* the same catch block
PageParseFails ==
    /\ pc = "awaitPage"
    /\ PageDoc(menuUrlsToCrawl[loopIdx]) = Unparseable
    /\ errorLog' = Logged(menuUrlsToCrawl[loopIdx], "parse failed")
    /\ Resume(allPageResults, crawledUrls, menuUrlsToCrawl, loopIdx + 1)
    /\ UNCHANGED <<startUrl, site, pureVars>>

\* no crawl, no aggregation and no page check has begun
CrawlIdle ==
    /\ pc = "idle"
    /\ allPageResults = <<>>
    /\ crawledUrls = {}
    /\ menuUrlsToCrawl = <<>>
    /\ loopIdx = 0
    /\ inFlight = {}
    /\ fetchLog = <<>>
    /\ errorLog = <<>>
    /\ outcome = NoValue

AggIdle == aggInput = <<>> /\ aggOutput = NoValue

CheckIdle == checkInput = NoValue /\ checkOutput = NoValue

\* the server has just started and no page is open
ApiIdle ==
    /\ configured = TRUE
    /\ reportCache = <<>>
    /\ timers = {}
    /\ uuidCount = 0
    /\ analyze = <<>>
    /\ ui = <<>>
    /\ send = NoValue
    /\ mails = <<>>

Init ==
    /\ startUrl \in StartUrls
    /\ site \in Sites
    /\ CrawlIdle
    /\ AggIdle
    /\ CheckIdle
    /\ ApiIdle

Next ==
    \/ CrawlStart
    \/ HomeFetchFails
    \/ HomeParseFails
    \/ HomeArrives
    \/ PageArrives
    \/ PageFetchFails
    \/ PageParseFails

Spec == Init /\ [][Next]_vars

-----------------------------------------------------------------------------
(* The aggregator alone: processResults applied to lists of page results.  *)

\* page results as crawlSite records them
AggPages ==
    { [url |-> HomeUrl, checks |-> runAllChecks(HomeSmall, HomeUrl)],
      PageResult(<<"https:", "//", "a.com", "/", "about">>),
      PageResult(<<"https:", "//", "a.com", "/", "contact">>),
      PageResult(<<"https:", "//", "a.com", "/", PageToken(1)>>),
      PageResult(<<"https:", "//", "a.com", "/", "blog">>) }

AggInputs == UNION {[1..n -> AggPages] : n \in 0..MaxAggPages}

Aggregate ==
    /\ aggOutput = NoValue
    /\ aggOutput' = Returned(processResults(aggInput))
    /\ UNCHANGED <<crawlVars, aggInput, checkVars, apiVars>>

InitAgg ==
    /\ startUrl = HomeUrl
    /\ site = "empty"
    /\ CrawlIdle
    /\ aggInput \in AggInputs
    /\ aggOutput = NoValue
    /\ CheckIdle
    /\ ApiIdle

NextAgg == Aggregate

SpecAgg == InitAgg /\ [][NextAgg]_vars

-----------------------------------------------------------------------------
(* The page checker alone: runAllChecks applied to documents.              *)

H1Counts == 0..MaxH1

AnchorLists(doc) ==
    { doc.anchors,
      <<>>,
      << Anchor(<<"https:", "//">>, "nav"),
         Anchor(<<"https:", "//", "exa mple", "/">>, "none"),
         Anchor(<<"a.com">>, "none"),
         Anchor(<<>>, "none") >> }

\* a script block whose text JSON.parse accepts
Block(value) == [parses |-> TRUE, value |-> value]

LdJsonLists(doc) ==
    { doc.ldjson,
      <<>>,
      << [parses |-> FALSE, value |-> JAbsent] >>,
      << [parses |-> TRUE, value |-> JNull] >>,
      \* a type twice, a broken block between two good ones, a graph whose
      \* owner has a type of its own and whose second entry has none
      << Block(JObj(JStr("Article"), JAbsent)),
         [parses |-> FALSE, value |-> JAbsent],
         Block(JObj(JArr(<<JStr("FAQPage"), JStr("Article")>>), JAbsent)),
         Block(JObj(JStr("WebSite"),
                    JArr(<<JObj(JStr("Organization"), JAbsent), JObj(JAbsent, JAbsent),
                           JObj(JStr("Article"), JAbsent)>>))) >>,
      \* a list within a type list, and a block that is a list itself
      << Block(JObj(JArr(<<JArr(<<JStr("HowTo")>>), JStr("Article")>>), JAbsent)),
         Block(JArr(<<JObj(JStr("Article"), JAbsent)>>)) >>,
      \* a graph with a null entry between two objects
      << Block(JObj(JAbsent,
                    JArr(<<JObj(JStr("Article"), JAbsent), JNull,
                           JObj(JStr("FAQPage"), JAbsent)>>))),
         Block(JObj(JStr("HowTo"), JAbsent)) >> }

BaseDocs == {EmptyDoc, RichDoc, PoorDoc, AboutDoc, HomeSmall}

Variants(d) ==
    { [d EXCEPT !.h1 = n, !.anchors = a, !.ldjson = j, !.text = t] :
        n \in H1Counts, a \in AnchorLists(d), j \in LdJsonLists(d),
        t \in {d.text, <<>>} }

CheckDocs == UNION { Variants(d) : d \in BaseDocs }

\* body texts by their counts: `pronouns` of the `words` words are you/your
\* in mixed case, and `sentences` terminators close the text (after a
\* space when there is no word for them to follow)
MaxWords == 26
MaxSentences == 2
MaxPronouns == 6

Prose(words, sentences, pronouns) ==
    [i \in 1..pronouns |-> IF i % 3 = 0 THEN "YOUR" ELSE IF i % 3 = 1 THEN "you" ELSE "Your"]
        \o [i \in 1..(words - pronouns) |-> "yours"]
        \o (IF words = 0 /\ sentences > 0 THEN <<" ">> ELSE <<>>)
        \o [i \in 1..sentences |-> IF i % 2 = 1 THEN "." ELSE "?!"]

HeadingLists ==
    { <<>>,
      << <<"Our", "rides">>, <<" ", "How", "to", "book">> >>,
      << <<"Island", "life">> >>,
      << <<"Tickets", "and", "how", "to", "book">> >> }

ProseCounts ==
    { t \in (0..MaxWords) \X (0..MaxSentences) \X (0..MaxPronouns) : t[3] <= t[1] }

ProseDocs ==
    { [EmptyDoc EXCEPT !.text = Prose(t[1], t[2], t[3]), !.headings = h] :
        t \in ProseCounts, h \in HeadingLists }

CheckUrls == { HomeUrl, <<"https:", "//", "a.com">>,
               <<"https:", "//", "b.org", "/", "study">> }

CheckPage ==
    /\ checkOutput = NoValue
    /\ checkOutput' = [kind |-> "checks",
                       checks |-> runAllChecks(checkInput.doc, checkInput.url)]
    /\ UNCHANGED <<crawlVars, aggVars, checkInput, apiVars>>

InitChecks ==
    /\ startUrl = HomeUrl
    /\ site = "empty"
    /\ CrawlIdle
    /\ AggIdle
    /\ checkInput \in [doc : CheckDocs, url : CheckUrls]
                        \cup [doc : ProseDocs, url : {HomeUrl}]
    /\ checkOutput = NoValue
    /\ ApiIdle

NextChecks == CheckPage

SpecChecks == InitChecks /\ [][NextChecks]_vars

-----------------------------------------------------------------------------
(* The HTTP layer and the browser page: /api/analyze, the report cache and *)
(* its eviction timers, /api/send-report, and the page's click handler.    *)
(* crawlSite is represented by its outcome, and the rate limiter by the    *)
(* bound on requests, which stays under its limit of 10 per window.        *)

\* /api/analyze requests
MaxRequests == 2
\* /api/send-report requests
MaxSends == 1

Requests == 1..MaxRequests

\* what a user types into urlInput (trimmed)
RawUrls == { <<"a.com">>, <<"https:", "//", "exa mple">>, <<>> }

\* the startUrl of the body of a POST to /api/analyze; <<>> is a body without
PostedUrls == { <<"https:", "//", "a.com">>, <<"http:", "//", "a.com", "/">>, <<>> }

UserEmails == {"", "user@x.org"}

\* res.status(status).json(body) or res.status(status).send(body)
Response(status, body) == [status |-> status, body |-> body]

\* what `await crawlSite(startUrl)` can end with: the report of a crawl that
\* analysed its start page alone, or a thrown error
CrawlOutcomes(url) ==
    IF ~ParseUrl(url, NoBase).ok THEN {Thrown("Invalid URL")}
    ELSE { Thrown("fetch failed"),
           Returned(processResults(<<[url |-> url,
                                      checks |-> runAllChecks(RichDoc, url)]>>)) }

\* a uuidv4() that returns the same id at every call
uuidv4Repeats(count) == 1

\* uuidv4(): an id that no earlier call has returned
uuidv4(count) == count + 1

\* reportCache.set(id, entry)
CacheSet(cache, id, entry) ==
    [i \in DOMAIN cache \cup {id} |-> IF i = id THEN entry ELSE cache[i]]

\* reportCache.delete(id)
CacheDelete(cache, id) == [i \in DOMAIN cache \ {id} |-> cache[i]]

\* a request nobody has sent yet
NoRequest == [pc |-> "idle", startUrl |-> <<>>, result |-> "none", response |-> NoValue]

\* the /api/analyze handler up to `await crawlSite(startUrl)`
AnalyzeBegins(url) ==
    IF ~configured
    THEN [pc |-> "answered", startUrl |-> url, result |-> "none",
          response |-> Response(500, [error |-> "Server is not configured correctly."])]
    ELSE IF url = <<>>
    THEN [pc |-> "answered", startUrl |-> url, result |-> "none",
          response |-> Response(400, [error |-> "startUrl is required"])]
    ELSE [pc |-> "crawling", startUrl |-> url, result |-> "none", response |-> NoValue]

\* a client posts to /api/analyze and the handler runs up to its await; the
\* requests are numbered in the order of their arrival
AnalyzePosted(r, url) ==
    /\ analyze[r].pc = "idle"
    /\ \A earlier \in 1..(r - 1) : analyze[earlier].pc # "idle"
    /\ analyze' = [analyze EXCEPT ![r] = AnalyzeBegins(url)]
    /\ UNCHANGED <<crawlVars, aggVars, checkVars, configured, reportCache, timers,
                   uuidCount, ui, send, mails>>

\* the request of the page arrives and the handler runs up to its await
AnalyzeArrives(r) ==
    /\ analyze[r].pc = "sent"
    /\ analyze' = [analyze EXCEPT ![r] = AnalyzeBegins(analyze[r].startUrl)]
    /\ UNCHANGED <<crawlVars, aggVars, checkVars, configured, reportCache, timers,
                   uuidCount, ui, send, mails>>

\* the /api/analyze handler from the end of crawlSite to its response
AnalyzeCrawlEnds(r) ==
    /\ analyze[r].pc = "crawling"
    /\ \E result \in CrawlOutcomes(analyze[r].startUrl) :
       /\ IF result.kind = "report"
          THEN /\ uuidCount' = uuidCount + 1
               /\ reportCache' = CacheSet(reportCache, uuidv4(uuidCount),
                                          [report |-> result.report,
                                           url |-> analyze[r].startUrl])
               /\ timers' = timers \cup {uuidv4(uuidCount)}
               /\ analyze' = [analyze EXCEPT ![r].pc = "answered",
                                 ![r].result = result.kind,
                                 ![r].response =
                                     Response(200, [summary |-> result.report.summary,
                                                    reportId |-> uuidv4(uuidCount)])]
          ELSE /\ analyze' = [analyze EXCEPT ![r].pc = "answered",
                                 ![r].result = result.kind,
                                 ![r].response =
                                     Response(500, [error |-> "Failed to complete analysis."])]
               /\ UNCHANGED <<reportCache, timers, uuidCount>>
    /\ UNCHANGED <<crawlVars, aggVars, checkVars, configured, ui, send, mails>>

\* a timer callback that does not delete
TimerFiresKeepsEntry(id) ==
    /\ id \in timers
    /\ timers' = timers \ {id}
    /\ UNCHANGED <<crawlVars, aggVars, checkVars, configured, reportCache, uuidCount,
                   analyze, ui, send, mails>>

\* the callback of `setTimeout(() => reportCache.delete(reportId), 3600000)`
TimerFires(id) ==
    /\ id \in timers
    /\ timers' = timers \ {id}
    /\ reportCache' = CacheDelete(reportCache, id)
    /\ UNCHANGED <<crawlVars, aggVars, checkVars, configured, uuidCount, analyze, ui,
                   send, mails>>

\* TO_EMAIL
ToEmail == "owner@geo"

\* userReportMsg and leadNotificationMsg of sendEmailReport
userReportMsg(url, results, userEmail) ==
    [to |-> userEmail, replyTo |-> ToEmail, subject |-> <<"Your Detailed GEO Inspection Report for", url>>,
     averageScore |-> results.summary.averageScore,
     sections |-> [i \in 1..Len(results.detailedReport) |-> results.detailedReport[i].name]]

leadNotificationMsg(url, userEmail) ==
    [to |-> ToEmail, subject |-> <<"GEO Report Request:", userEmail, url>>]

\* no /api/send-report request yet
NoSend ==
    [pc |-> "idle", count |-> 0, reportId |-> 0, userEmail |-> "", messages |-> <<>>,
     mailError |-> FALSE, response |-> NoValue]

\* a handler that tests the e-mail address before the report id
SendReportArrivesEmailFirst(id, email) ==
    /\ send.pc \in {"idle", "answered"}
    /\ send.count < MaxSends
    /\ send' =
          IF email = ""
          THEN [pc |-> "answered", count |-> send.count + 1, reportId |-> id,
                userEmail |-> email, messages |-> <<>>, mailError |-> FALSE,
                response |-> Response(400, "Email address is required.")]
          ELSE IF id = 0 \/ id \notin DOMAIN reportCache
          THEN [pc |-> "answered", count |-> send.count + 1, reportId |-> id,
                userEmail |-> email, messages |-> <<>>, mailError |-> FALSE,
                response |-> Response(404, "Report not found or expired.")]
          ELSE [pc |-> "sending", count |-> send.count + 1, reportId |-> id,
                userEmail |-> email, mailError |-> FALSE,
                messages |-> <<userReportMsg(reportCache[id].url, reportCache[id].report, email),
                               leadNotificationMsg(reportCache[id].url, email)>>,
                response |-> NoValue]
    /\ UNCHANGED <<crawlVars, aggVars, checkVars, configured, reportCache, timers,
                   uuidCount, analyze, ui, mails>>

\* the /api/send-report handler up to `await sgMail.send(...)`, where the
\* two messages are already built from the cached report; a reportId
\* of 0 is a request without one, or with an id that was never issued
SendReportArrives(id, email) ==
    /\ send.pc \in {"idle", "answered"}
    /\ send.count < MaxSends
    /\ send' =
          IF id = 0 \/ id \notin DOMAIN reportCache
          THEN [pc |-> "answered", count |-> send.count + 1, reportId |-> id,
                userEmail |-> email, messages |-> <<>>, mailError |-> FALSE,
                response |-> Response(404, "Report not found or expired.")]
          ELSE IF email = ""
          THEN [pc |-> "answered", count |-> send.count + 1, reportId |-> id,
                userEmail |-> email, messages |-> <<>>, mailError |-> FALSE,
                response |-> Response(400, "Email address is required.")]
          ELSE [pc |-> "sending", count |-> send.count + 1, reportId |-> id,
                userEmail |-> email, mailError |-> FALSE,
                messages |-> <<userReportMsg(reportCache[id].url, reportCache[id].report, email),
                               leadNotificationMsg(reportCache[id].url, email)>>,
                response |-> NoValue]
    /\ UNCHANGED <<crawlVars, aggVars, checkVars, configured, reportCache, timers,
                   uuidCount, analyze, ui, mails>>

\* a handler that deletes the report once it is sent
SendReportDeliversAndDeletes ==
    /\ send.pc = "sending"
    /\ mails' = mails \o send.messages
    /\ send' = [send EXCEPT !.pc = "answered",
                            !.response = Response(200, "Report sent successfully.")]
    /\ reportCache' = CacheDelete(reportCache, send.reportId)
    /\ UNCHANGED <<crawlVars, aggVars, checkVars, configured, timers, uuidCount, analyze, ui>>

\* sgMail.send resolves; the handler answers
SendReportDelivers ==
    /\ send.pc = "sending"
    /\ mails' = mails \o send.messages
    /\ send' = [send EXCEPT !.pc = "answered",
                            !.response = Response(200, "Report sent successfully.")]
    /\ UNCHANGED <<crawlVars, aggVars, checkVars, configured, reportCache, timers,
                   uuidCount, analyze, ui>>

\* sgMail.send rejects; sendEmailReport catches and logs, the handler answers
SendReportMailFails ==
    /\ send.pc = "sending"
    /\ send' = [send EXCEPT !.pc = "answered", !.mailError = TRUE,
                            !.response = Response(200, "Report sent successfully.")]
    /\ UNCHANGED <<crawlVars, aggVars, checkVars, configured, reportCache, timers,
                   uuidCount, analyze, ui, mails>>

\* the page as the browser loads it: results and score hidden, no click yet;
\* waiting is the request the click handler awaits, 0 when it awaits none
\* progressStatus is the text of the progress line; progressInterval is the
\* handle the variable of that name holds (0 before any is stored: the
\* handle of the interval that call number c of animateProgressBar starts
\* is c); intervals holds, per call of animateProgressBar, the variables of
\* its closure and which of its two intervals is scheduled
FreshView ==
    [resultsHidden |-> TRUE, progressHidden |-> TRUE, scoreHidden |-> TRUE,
     scoreCircle |-> "", checklist |-> [kind |-> "empty"], revealPending |-> FALSE,
     currentReportId |-> 0, clicks |-> 0, waiting |-> 0,
     progressStatus |-> "", progressInterval |-> 0, intervals |-> <<>>, ticks |-> 0]

INITIAL_PROGRESS_MESSAGES ==
    <<"Warming up the engines...",
      "Scanning for E-E-A-T signals to build trust with AI...",
      "Did you know? AI prioritizes sites that answer customer questions.",
      "Checking if your content is 'quotable' for search results...",
      "Analyzing your site's structure for readability...">>

FINAL_MARKETING_MESSAGES ==
    <<"Brought to you by John Collins Consulting",
      "Are you mentioned when AI answers questions about your industry?",
      "We have deep industry experience",
      "Good GEO turns your website into a primary source for AI.",
      "We're trusted by attractions industry leaders",
      "Did you know? AI favors content that demonstrates first-hand experience.",
      "We'll help you raise your score!",
      "Optimizing for AI today means more customers tomorrow.",
      "Don't let AI choose your competitors over you.",
      "Get ready, here it comes...">>

\* clearInterval(progressInterval): the interval the handle names, if it is
\* still scheduled, is cancelled; the variable keeps the handle
clearInterval(view) ==
    IF view.progressInterval = 0 THEN view
    ELSE [view EXCEPT !.intervals[view.progressInterval].final = FALSE]

\* animateProgressBar(): a new closure with its counters at 0, the first
\* message shown and initialInterval scheduled
animateProgressBar(view) ==
    [view EXCEPT !.progressStatus = INITIAL_PROGRESS_MESSAGES[1],
                 !.intervals = Append(@, [initial |-> TRUE, initialMessageIndex |-> 0,
                                          final |-> FALSE, finalAlternatingCounter |-> 0,
                                          finalMessageIndex |-> 0])]

\* uiReset() without `scoreWrapper.classList.add('hidden')`
uiResetKeepsScore(view) ==
    clearInterval([view EXCEPT !.resultsHidden = TRUE, !.progressHidden = FALSE,
                               !.checklist = [kind |-> "empty"]])

\* uiReset()
uiReset(view) ==
    clearInterval([view EXCEPT !.resultsHidden = TRUE, !.progressHidden = FALSE,
                               !.checklist = [kind |-> "empty"], !.scoreHidden = TRUE])

\* the check-item elements displayFinalReport appends, one per key
ChecklistItems(checkStats) ==
    [i \in 1..Len(checkStats) |->
        [name |-> checkStats[i].name,
         className |-> IF (IF checkStats[i].total > 0
                           THEN RoundPercent(checkStats[i].passed, checkStats[i].total)
                           ELSE 0) >= 75
                       THEN "check-item passed" ELSE "check-item failed"]]

\* displayFinalReport(results), the timeout callback it schedules apart
displayFinalReport(view, results) ==
    IF results.summary.checkStats = <<>>
    THEN [clearInterval(view) EXCEPT
                      !.progressStatus = "Analysis complete!",
                      !.revealPending = TRUE, !.currentReportId = results.reportId,
                      !.checklist = [kind |-> "no pages"]]
    ELSE [clearInterval(view) EXCEPT
                      !.progressStatus = "Analysis complete!",
                      !.revealPending = TRUE, !.currentReportId = results.reportId,
                      !.scoreCircle = ToString(results.summary.averageScore),
                      !.scoreHidden = FALSE,
                      !.checklist = [kind |-> "items",
                                     items |-> ChecklistItems(results.summary.checkStats)]]

\* the catch block of the click handler
AnalysisFailedView(view) ==
    [view EXCEPT !.progressHidden = TRUE, !.resultsHidden = FALSE,
                 !.checklist = [kind |-> "The analysis could not be completed."]]

\* the click on analyzeButton up to `await fetch('/api/analyze', ...)`; the
\* button is disabled while the handler awaits
ClickAnalyze(raw) ==
    /\ ui.waiting = 0
    /\ ui.clicks < MaxRequests
    /\ IF raw = <<>>
       THEN UNCHANGED <<analyze, ui>>
       ELSE /\ ui' = [animateProgressBar(uiReset(ui)) EXCEPT
                            !.clicks = @ + 1, !.waiting = ui.clicks + 1]
            /\ analyze' = [analyze EXCEPT ![ui.clicks + 1] =
                              [NoRequest EXCEPT !.pc = "sent",
                                  !.startUrl = IF Head(raw) \in {"http:", "https:"} THEN raw
                                               ELSE <<"https:", "//">> \o raw]]
    /\ UNCHANGED <<crawlVars, aggVars, checkVars, configured, reportCache, timers,
                   uuidCount, send, mails>>

\* the click handler from the answer of fetch to the end of its finally block
ClientReceives ==
    /\ ui.waiting # 0
    /\ analyze[ui.waiting].pc = "answered"
    /\ analyze' = [analyze EXCEPT ![ui.waiting].pc = "shown"]
    /\ ui' = [clearInterval(IF analyze[ui.waiting].response.status \in 200..299
                             THEN displayFinalReport(ui, analyze[ui.waiting].response.body)
                             ELSE AnalysisFailedView(ui)) EXCEPT !.waiting = 0]
    /\ UNCHANGED <<crawlVars, aggVars, checkVars, configured, reportCache, timers,
                   uuidCount, send, mails>>

\* the callback of the setTimeout(..., 500) of displayFinalReport
RevealFires ==
    /\ ui.revealPending
    /\ ui' = [ui EXCEPT !.revealPending = FALSE, !.progressHidden = TRUE,
                        !.resultsHidden = FALSE]
    /\ UNCHANGED <<crawlVars, aggVars, checkVars, configured, reportCache, timers,
                   uuidCount, analyze, send, mails>>

\* how many interval callbacks a page runs
MaxTicks == 6

\* the callback of initialInterval of call c of animateProgressBar: the next
\* opening message, or after the last one the interval clears itself and
\* stores a new interval in progressInterval
InitialIntervalFires(c) ==
    /\ c \in 1..Len(ui.intervals)
    /\ ui.intervals[c].initial
    /\ ui.ticks < MaxTicks
    /\ LET index == ui.intervals[c].initialMessageIndex + 1
       IN  ui' = IF index >= Len(INITIAL_PROGRESS_MESSAGES)
                 THEN [ui EXCEPT !.ticks = @ + 1,
                                 !.intervals[c].initialMessageIndex = index,
                                 !.intervals[c].initial = FALSE,
                                 !.intervals[c].final = TRUE,
                                 !.progressInterval = c,
                                 !.progressStatus = "Compiling final report..."]
                 ELSE [ui EXCEPT !.ticks = @ + 1,
                                 !.intervals[c].initialMessageIndex = index,
                                 !.progressStatus = INITIAL_PROGRESS_MESSAGES[index + 1]]
    /\ UNCHANGED <<crawlVars, aggVars, checkVars, configured, reportCache, timers,
                   uuidCount, analyze, send, mails>>

\* the callback of the interval that call c stored in progressInterval:
\* "Compiling final report..." and the marketing messages in turn
ProgressIntervalFires(c) ==
    /\ c \in 1..Len(ui.intervals)
    /\ ui.intervals[c].final
    /\ ui.ticks < MaxTicks
    /\ LET counter == ui.intervals[c].finalAlternatingCounter + 1
           index == ui.intervals[c].finalMessageIndex
       IN  ui' = IF counter % 2 = 0
                 THEN [ui EXCEPT !.ticks = @ + 1,
                                 !.intervals[c].finalAlternatingCounter = counter,
                                 !.progressStatus = "Compiling final report..."]
                 ELSE [ui EXCEPT !.ticks = @ + 1,
                                 !.intervals[c].finalAlternatingCounter = counter,
                                 !.intervals[c].finalMessageIndex =
                                        (index + 1) % Len(FINAL_MARKETING_MESSAGES),
                                 !.progressStatus = FINAL_MARKETING_MESSAGES[index + 1]]
    /\ UNCHANGED <<crawlVars, aggVars, checkVars, configured, reportCache, timers,
                   uuidCount, analyze, send, mails>>

InitApi ==
    /\ startUrl = HomeUrl
    /\ site = "empty"
    /\ CrawlIdle
    /\ AggIdle
    /\ CheckIdle
    /\ configured \in BOOLEAN
    /\ reportCache = <<>>
    /\ timers = {}
    /\ uuidCount = 0
    /\ analyze = [r \in Requests |-> NoRequest]
    /\ ui = FreshView
    /\ send = NoSend
    /\ mails = <<>>

\* the server under requests of any clients
NextApi ==
    \/ \E r \in Requests, url \in PostedUrls : AnalyzePosted(r, url)
    \/ \E r \in Requests : AnalyzeCrawlEnds(r)
    \/ \E id \in Requests : TimerFires(id)
    \/ \E id \in 0..uuidCount, email \in UserEmails : SendReportArrives(id, email)
    \/ SendReportDelivers
    \/ SendReportMailFails

\* Node's event loop runs the callback of every timer that was set
SpecApi == InitApi /\ [][NextApi]_vars /\ \A id \in Requests : WF_vars(TimerFires(id))

\* one browser page and the server behind it
NextPage ==
    \/ \E raw \in RawUrls : ClickAnalyze(raw)
    \/ \E r \in Requests : AnalyzeArrives(r)
    \/ \E r \in Requests : AnalyzeCrawlEnds(r)
    \/ ClientReceives
    \/ RevealFires
    \/ \E id \in Requests : TimerFires(id)
    \/ \E c \in Requests : InitialIntervalFires(c)
    \/ \E c \in Requests : ProgressIntervalFires(c)

SpecPage == InitApi /\ [][NextPage]_vars

-----------------------------------------------------------------------------
(* Properties of the crawl (specification Spec).                           *)

Min(a, b) == IF a <= b THEN a ELSE b

\* the URLs the catch block of the loop has logged
FailedUrls == {errorLog[i].url : i \in 1..Len(errorLog)}

\* C1: page budget.  In a run of crawlSite there are at most 10 fetchHtml
\* calls, the first for the start page and at most 9 for secondary pages,
\* whether they succeed or fail and however many menu links the home page has.
C1_PageBudget ==
    /\ Len(fetchLog) <= 10
    /\ Cardinality({i \in 1..Len(fetchLog) : i > 1}) <= 9
    /\ fetchLog # <<>> => fetchLog[1] = startUrl

\* a finished crawl of a home page with more than 9 menu links that has
\* used the whole budget, failed attempts among the 10 calls
C1_Witness ==
    /\ pc = "done"
    /\ Len(menuUrlsToCrawl) > 9
    /\ Len(fetchLog) = 10
    /\ errorLog # <<>>
    /\ Len(allPageResults) + Len(errorLog) = 10

\* C2: a failure on the start page is fatal.  When crawlSite has failed it has
\* raised an error, there is no report and no page result, and no fetch other
\* than that of the start page was made; an unparseable start URL fails
\* before any fetch; and a report exists only if the start page was fetched,
\* parsed and recorded.
C2_StartPageFailureFatal ==
    /\ pc = "failed" =>
          /\ outcome.kind = "error"
          /\ allPageResults = <<>>
          /\ fetchLog \in {<<>>, <<startUrl>>}
          /\ inFlight = {}
    /\ (pc # "idle" /\ ~ParseUrl(startUrl, NoBase).ok) =>
          pc = "failed" /\ fetchLog = <<>>
    /\ (pc # "idle" /\ HomeDoc(site) = Unparseable) => outcome.kind # "report"
    /\ outcome.kind = "report" =>
          /\ pc = "done"
          /\ allPageResults # <<>>
          /\ allPageResults[1].url = startUrl
    /\ outcome.kind = "error" => pc = "failed"

\* the start page of a site whose home page has menu links was fetched, and
\* the crawl failed
C2_Witness ==
    /\ pc = "failed"
    /\ site = "big"
    /\ fetchLog = <<startUrl>>
    /\ outcome = Thrown("fetch failed")

\* C3: a secondary-page failure is soft.  When crawlSite returns, it returns a
\* report; every candidate within the budget was attempted, in order,
\* whichever of them failed; pagesCrawled is 1 plus the number of secondary
\* pages fetched and parsed; and a failed page is in no failures list and in
\* no totalCount.
C3_SecondaryFailureSoft ==
    pc = "done" =>
        /\ outcome.kind = "report"
        /\ fetchLog = <<startUrl>> \o SubSeq(menuUrlsToCrawl, 1, Min(Len(menuUrlsToCrawl), 9))
        /\ FailedUrls \subseteq {fetchLog[i] : i \in 2..Len(fetchLog)}
        /\ outcome.report.pagesCrawled = 1 + (Len(fetchLog) - 1 - Len(errorLog))
        /\ \A k \in 1..Len(outcome.report.detailedReport) :
              /\ outcome.report.detailedReport[k].totalCount = Len(fetchLog) - Len(errorLog)
              /\ outcome.report.detailedReport[k].passedCount
                    + Len(outcome.report.detailedReport[k].failures)
                 = Len(fetchLog) - Len(errorLog)
              /\ \A f \in 1..Len(outcome.report.detailedReport[k].failures) :
                    outcome.report.detailedReport[k].failures[f].url \notin FailedUrls

\* a finished crawl in which a secondary page failed and a later candidate
\* was fetched and recorded all the same
C3_Witness ==
    /\ pc = "done"
    /\ errorLog # <<>>
    /\ Len(allPageResults) >= 2
    /\ errorLog[1].url = fetchLog[2]
    /\ allPageResults[Len(allPageResults)].url = fetchLog[Len(fetchLog)]

\* C4: secondary pages are processed concurrently.  While a secondary fetch is
\* outstanding, the fetch of every other candidate within the budget has been
\* started as well: no candidate waits for another one's answer.
C4_ConcurrentSecondaryFetches ==
    pc = "awaitPage" =>
        \A k \in 1..Min(Len(menuUrlsToCrawl), 9) :
            \E i \in 2..Len(fetchLog) : fetchLog[i] = menuUrlsToCrawl[k]

\* C9: start page first.  Whenever a secondary fetch has begun, the start
\* page's result is already recorded; it stays the first element of
\* allPageResults, and that list is what processResults is handed.
C9_StartPageFirst ==
    /\ Len(fetchLog) >= 2 =>
          /\ allPageResults # <<>>
          /\ allPageResults[1] = [url |-> startUrl,
                                  checks |-> runAllChecks(HomeDoc(site), startUrl)]
    /\ pc = "done" =>
          /\ allPageResults[1].url = startUrl
          /\ outcome = Returned(processResults(allPageResults))

\* a finished crawl that recorded secondary pages after the start page
C9_Witness ==
    /\ pc = "done"
    /\ Len(fetchLog) >= 3
    /\ Len(allPageResults) >= 3

-----------------------------------------------------------------------------
(* Properties of the link extractor, on the crawl (specification Spec).    *)

\* findMenuLinks has just returned menuUrlsToCrawl: the home page is recorded
\* and no secondary page has been answered yet
LinksExtracted ==
    pc \in {"awaitPage", "done"} /\ Len(allPageResults) = 1 /\ errorLog = <<>>

\* anchor n of the home page, taken alone, yields the URL u
YieldsAlone(n, u, seen) ==
    MenuLinkStep(<<>>, HomeDoc(site).anchors[n], startUrl, seen) = <<u>>

\* the first anchor matched by the selector list that yields u
FirstSource(u) ==
    CHOOSE n \in 1..Len(HomeDoc(site).anchors) :
        /\ HomeDoc(site).anchors[n].within \in navLinkSelectors
        /\ YieldsAlone(n, u, {})
        /\ \A n2 \in 1..(n - 1) :
              ~(HomeDoc(site).anchors[n2].within \in navLinkSelectors
                /\ YieldsAlone(n2, u, {}))

\* C11: same origin only.  Every URL findMenuLinks returns has the origin
\* (scheme, host, port) of the start URL, and no secondary page outside that
\* origin is fetched.
C11_SameOriginOnly ==
    /\ \A k \in 1..Len(menuUrlsToCrawl) :
          Origin(ParseUrl(menuUrlsToCrawl[k], NoBase)) = Origin(ParseUrl(startUrl, NoBase))
    /\ \A i \in 2..Len(fetchLog) :
          Origin(ParseUrl(fetchLog[i], NoBase)) = Origin(ParseUrl(startUrl, NoBase))

\* C12: the link extractor never returns the start URL.  However the start
\* URL is written, no returned URL is the start URL or a member of the
\* already-seen set, and the home page is not fetched as a secondary page.
C12_NeverReturnsStartUrl ==
    /\ \A k \in 1..Len(menuUrlsToCrawl) :
          /\ menuUrlsToCrawl[k] # startUrl
          /\ Href(ParseUrl(menuUrlsToCrawl[k], NoBase)) # Href(ParseUrl(startUrl, NoBase))
    /\ \A i \in 2..Len(fetchLog) :
          Href(ParseUrl(fetchLog[i], NoBase)) # Href(ParseUrl(startUrl, NoBase))

\* C13: deduplicated, fragment-free links.  The URLs findMenuLinks returns are
\* pairwise distinct, carry no fragment, each comes from an anchor with an
\* href that does not start with '#', they are in the order of first
\* discovery, and hrefs that differ only by fragment yield one entry.
C13_DistinctFragmentFree ==
    LinksExtracted =>
        /\ \A i, j \in 1..Len(menuUrlsToCrawl) :
              menuUrlsToCrawl[i] = menuUrlsToCrawl[j] => i = j
        /\ \A k \in 1..Len(menuUrlsToCrawl) : ~Contains(menuUrlsToCrawl[k], "#")
        /\ \A k \in 1..Len(menuUrlsToCrawl) :
              \E n \in 1..Len(HomeDoc(site).anchors) :
                  /\ HomeDoc(site).anchors[n].hasHref
                  /\ HomeDoc(site).anchors[n].href # <<>>
                  /\ Head(HomeDoc(site).anchors[n].href) # "#"
                  /\ YieldsAlone(n, menuUrlsToCrawl[k], {})
        /\ \A i, j \in 1..Len(menuUrlsToCrawl) :
              i < j => FirstSource(menuUrlsToCrawl[i]) < FirstSource(menuUrlsToCrawl[j])
        /\ \A n1, n2 \in 1..Len(HomeDoc(site).anchors) :
              (/\ HomeDoc(site).anchors[n1].hasHref
               /\ HomeDoc(site).anchors[n2].hasHref
               /\ BeforeFragment(HomeDoc(site).anchors[n1].href) # <<>>
               /\ BeforeFragment(HomeDoc(site).anchors[n1].href)
                     = BeforeFragment(HomeDoc(site).anchors[n2].href))
              => \A k \in 1..Len(menuUrlsToCrawl) :
                     YieldsAlone(n1, menuUrlsToCrawl[k], {})
                        <=> YieldsAlone(n2, menuUrlsToCrawl[k], {})

\* links extracted from a home page that has an anchor without href, an
\* anchor to '#top' and two anchors that differ only by fragment, both of
\* which yield the one URL returned for them
C13_Witness ==
    /\ LinksExtracted
    /\ \E n \in 1..Len(HomeDoc(site).anchors) : ~HomeDoc(site).anchors[n].hasHref
    /\ \E n \in 1..Len(HomeDoc(site).anchors) :
          HomeDoc(site).anchors[n].hasHref /\ Head(HomeDoc(site).anchors[n].href) = "#"
    /\ \E n1, n2 \in 1..Len(HomeDoc(site).anchors) :
          /\ n1 < n2
          /\ HomeDoc(site).anchors[n1].href # HomeDoc(site).anchors[n2].href
          /\ \E k \in 1..Len(menuUrlsToCrawl) :
                YieldsAlone(n1, menuUrlsToCrawl[k], {}) /\ YieldsAlone(n2, menuUrlsToCrawl[k], {})

\* C20 as stated: first matching selector tier wins.  Every URL findMenuLinks
\* returns comes from an anchor of the first selector that matches an
\* anchor; anchors matched only by a later selector are not in the result.
C20_FirstTierWins ==
    LinksExtracted =>
        \A k \in 1..Len(menuUrlsToCrawl) :
            \E n \in 1..Len(HomeDoc(site).anchors) :
                /\ HomeDoc(site).anchors[n].within = FirstTier(HomeDoc(site))
                /\ YieldsAlone(n, menuUrlsToCrawl[k], {})

\* C20 as amended: findMenuLinks takes the anchors matched by any selector of
\* its one selector list.  Every URL returned comes from an anchor that some
\* selector matches, every such anchor that yields a URL not already seen has
\* it in the result, and anchors that no selector matches contribute nothing.
C20_AnySelectorMatches ==
    LinksExtracted =>
        /\ \A k \in 1..Len(menuUrlsToCrawl) :
              \E n \in 1..Len(HomeDoc(site).anchors) :
                  /\ HomeDoc(site).anchors[n].within \in navLinkSelectors
                  /\ YieldsAlone(n, menuUrlsToCrawl[k], {startUrl})
        /\ \A n \in 1..Len(HomeDoc(site).anchors) :
              HomeDoc(site).anchors[n].within \in navLinkSelectors =>
                  \A u \in {MenuLinkStep(<<>>, HomeDoc(site).anchors[n], startUrl, {startUrl})[i] :
                              i \in 1..Len(MenuLinkStep(<<>>, HomeDoc(site).anchors[n],
                                                        startUrl, {startUrl}))} :
                      Contains(menuUrlsToCrawl, u)

\* links extracted from a home page where two different selectors each match
\* an anchor whose URL is returned, and an anchor outside every selector is
\* left out
C20_Witness ==
    /\ LinksExtracted
    /\ \E n1, n2 \in 1..Len(HomeDoc(site).anchors) :
          /\ HomeDoc(site).anchors[n1].within \in navLinkSelectors
          /\ HomeDoc(site).anchors[n2].within \in navLinkSelectors
          /\ HomeDoc(site).anchors[n1].within # HomeDoc(site).anchors[n2].within
          /\ \E k1, k2 \in 1..Len(menuUrlsToCrawl) :
                /\ k1 # k2
                /\ YieldsAlone(n1, menuUrlsToCrawl[k1], {})
                /\ YieldsAlone(n2, menuUrlsToCrawl[k2], {})
    /\ \E n \in 1..Len(HomeDoc(site).anchors) :
          /\ HomeDoc(site).anchors[n].within = "none"
          /\ MenuLinkStep(<<>>, HomeDoc(site).anchors[n], startUrl, {startUrl}) # <<>>
          /\ ~Contains(menuUrlsToCrawl,
                       MenuLinkStep(<<>>, HomeDoc(site).anchors[n], startUrl, {startUrl})[1])

\* C21: no URL is fetched twice in one crawl.  The calls of fetchHtml of one
\* run carry pairwise different URL strings, the first of them the start
\* URL; every secondary URL is in crawledUrls from the moment its fetch
\* starts; and a candidate the loop has passed without fetching it was in
\* crawledUrls already, or the page budget was spent.
C21_NoUrlFetchedTwice ==
    /\ \A i, j \in 1..Len(fetchLog) : i # j => fetchLog[i] # fetchLog[j]
    /\ fetchLog # <<>> => fetchLog[1] = startUrl
    /\ \A i \in 2..Len(fetchLog) : fetchLog[i] \in crawledUrls
    /\ pc = "awaitPage" => inFlight \subseteq crawledUrls
    /\ pc = "awaitPage" =>
          \A k \in 1..(loopIdx - 1) :
             \/ \E i \in 2..Len(fetchLog) : fetchLog[i] = menuUrlsToCrawl[k]
             \/ menuUrlsToCrawl[k] \in crawledUrls

\* a finished crawl of a home page that links to itself and twice to one
\* page: the start URL and two secondary URLs were fetched, each once
C21_Witness ==
    /\ pc = "done"
    /\ Len(fetchLog) >= 3
    /\ \E n \in 1..Len(HomeDoc(site).anchors) : YieldsAlone(n, startUrl, {})
    /\ \E n1, n2 \in 1..Len(HomeDoc(site).anchors), u \in crawledUrls :
          n1 # n2 /\ YieldsAlone(n1, u, {}) /\ YieldsAlone(n2, u, {})

-----------------------------------------------------------------------------
(* Properties of the aggregator (specification SpecAgg).                   *)

\* the checks of all pages of a list, counted without processResults
ChecksIn(pages) == Flatten([i \in 1..Len(pages) |-> pages[i].checks])

PassedIn(pages) ==
    Cardinality({j \in 1..Len(ChecksIn(pages)) : ChecksIn(pages)[j].passed})

Aggregated == aggOutput.kind = "report"

\* C5: count invariant.  In the report processResults returns, every check
\* name of detailedReport has totalCount = pagesCrawled and
\* passedCount + length(failures) = totalCount.
C5_CountInvariant ==
    Aggregated =>
        /\ aggOutput.report.pagesCrawled = Len(aggInput)
        /\ \A k \in 1..Len(aggOutput.report.detailedReport) :
              /\ aggOutput.report.detailedReport[k].totalCount
                    = aggOutput.report.pagesCrawled
              /\ aggOutput.report.detailedReport[k].passedCount
                    + Len(aggOutput.report.detailedReport[k].failures)
                 = aggOutput.report.detailedReport[k].totalCount

\* a report over several pages with a check that some pages pass and others fail
C5_Witness ==
    /\ Aggregated
    /\ aggOutput.report.pagesCrawled >= 2
    /\ \E k \in 1..Len(aggOutput.report.detailedReport) :
          /\ aggOutput.report.detailedReport[k].passedCount > 0
          /\ aggOutput.report.detailedReport[k].failures # <<>>

C7_ScoreBounds ==
    Aggregated =>
        /\ aggOutput.report.summary.averageScore \in 0..100
        /\ aggOutput.report.pagesCrawled = 0 => aggOutput.report.summary.averageScore = 0

\* the report of an empty list of page results
C7_Witness ==
    /\ Aggregated
    /\ aggInput = <<>>
    /\ aggOutput.report.pagesCrawled = 0

\* the rearrangements of 1..n that leave 1 in place
SecondaryPermutations(n) ==
    {f \in [1..n -> 1..n] :
        /\ n >= 1 => f[1] = 1
        /\ \A i, j \in 1..n : f[i] = f[j] => i = j}

Permuted(pages, f) == [i \in 1..Len(pages) |-> pages[f[i]]]

Occurrences(list, e) == Cardinality({i \in 1..Len(list) : list[i] = e})

SameEntries(l1, l2) ==
    /\ Len(l1) = Len(l2)
    /\ \A i \in 1..Len(l1) : Occurrences(l1, l1[i]) = Occurrences(l2, l1[i])

\* C10 as stated: order independence of aggregation.  For every permutation
\* of the secondary pages of a list, processResults returns the same report:
\* same averageScore, same passed/total counts, same failures lists.
C10_OrderIndependent ==
    Aggregated =>
        \A f \in SecondaryPermutations(Len(aggInput)) :
            processResults(Permuted(aggInput, f)) = aggOutput.report

\* two reports that differ at most in the order of the entries of their
\* failures lists
SameUpToFailureOrder(r1, r2) ==
    /\ r1.summary = r2.summary
    /\ r1.pagesCrawled = r2.pagesCrawled
    /\ Len(r1.detailedReport) = Len(r2.detailedReport)
    /\ \A k \in 1..Len(r1.detailedReport) :
          /\ r1.detailedReport[k].name = r2.detailedReport[k].name
          /\ r1.detailedReport[k].passedCount = r2.detailedReport[k].passedCount
          /\ r1.detailedReport[k].totalCount = r2.detailedReport[k].totalCount
          /\ SameEntries(r1.detailedReport[k].failures, r2.detailedReport[k].failures)

\* C10 as amended: for every permutation of the secondary pages, processResults
\* returns the same averageScore, pagesCrawled and checkStats, the same check
\* names in the same order with the same passedCount and totalCount, and
\* failures lists with the same entries; the entries of a failures list are
\* in the order of the pages in the list.
C10_OrderIndependentUpToFailureOrder ==
    Aggregated =>
        \A f \in SecondaryPermutations(Len(aggInput)) :
            SameUpToFailureOrder(processResults(Permuted(aggInput, f)), aggOutput.report)

\* a report over a start page and two different secondary pages that fail
\* the same check
C10_Witness ==
    /\ Aggregated
    /\ Len(aggInput) >= 3
    /\ aggInput[2].url # aggInput[3].url
    /\ \E k \in 1..Len(aggOutput.report.detailedReport) :
          \E i, j \in 1..Len(aggOutput.report.detailedReport[k].failures) :
              /\ aggOutput.report.detailedReport[k].failures[i].url = aggInput[2].url
              /\ aggOutput.report.detailedReport[k].failures[j].url = aggInput[3].url

-----------------------------------------------------------------------------
(* Properties of the page checker (specification SpecChecks).              *)

\* the 19 names in the order of the specification's list
CanonicalNames ==
    << "Title Tag", "Meta Description", "H1 Heading", "Mobile-Friendly Viewport",
       "Internal Linking", "Image Alt Text", "Conversational Tone",
       "Clear Structure (Lists)", "Readability", "Unique Data/Insights",
       "Author Byline/Bio", "First-Hand Experience", "Content Freshness",
       "Contact Information", "Outbound Links", "Cited Sources", "Schema Found",
       "Article or Org Schema", "FAQ or How-To Schema" >>

\* C8: 19-check completeness.  For every document, the empty one and those
\* with malformed hrefs included, runAllChecks returns exactly 19 results
\* named by the 19 canonical names in their order, each with a boolean
\* passed and a non-empty details string.
C8_NineteenChecks ==
    checkOutput.kind = "checks" =>
        /\ Len(checkOutput.checks) = 19
        /\ [i \in 1..Len(checkOutput.checks) |-> checkOutput.checks[i].name] = CanonicalNames
        /\ \A i \in 1..Len(checkOutput.checks) :
              /\ checkOutput.checks[i].passed \in BOOLEAN
              /\ checkOutput.checks[i].details # ""

\* the checks of a document without title, images, lists, sentences or
\* structured data, whose anchors all carry malformed hrefs
C8_Witness ==
    /\ checkOutput.kind = "checks"
    /\ checkInput.doc.title = <<>>
    /\ checkInput.doc.imgs = <<>>
    /\ checkInput.doc.text = <<>>
    /\ checkInput.doc.ldjson = <<>>
    /\ Len(checkInput.doc.anchors) = 4
    /\ \A i \in 1..Len(checkInput.doc.anchors) : ~LinkHost(checkInput.doc.anchors[i]).ok

\* the result of the check called name
ResultOf(name) ==
    checkOutput.checks[CHOOSE i \in 1..Len(checkOutput.checks) :
                           checkOutput.checks[i].name = name]

\* the checks whose details on pass say what was found
TellingChecks ==
    {"Conversational Tone", "Readability", "Unique Data/Insights", "Schema Found",
     "Cited Sources"}

\* C22: a CheckResult with passed == true has details equal to "OK".
C22_OkOnPass ==
    checkOutput.kind = "checks" =>
        \A i \in 1..Len(checkOutput.checks) :
            checkOutput.checks[i].passed => checkOutput.checks[i].details = "OK"

\* C22, amended: a passed result of the other 14 checks has details "OK"; a
\* passed Conversational Tone, Unique Data/Insights or Cited Sources result
\* has one of the texts "OK (Found ...)." that name what was found, and a
\* passed Readability or Schema Found result has a text other than "OK"
\* ("Good (Avg. ...)", "Found: ...").
C22_OkOnPassButFive ==
    checkOutput.kind = "checks" =>
        /\ \A i \in 1..Len(checkOutput.checks) :
              checkOutput.checks[i].passed /\ checkOutput.checks[i].name \notin TellingChecks
                 => checkOutput.checks[i].details = "OK"
        /\ ResultOf("Conversational Tone").passed =>
              ResultOf("Conversational Tone").details
                 \in {"OK (Found question-based subheadings)."}
                     \cup {"OK (Found " \o ToString(n) \o " second-person pronouns)." :
                             n \in 6..Len(checkInput.doc.text)}
        /\ ResultOf("Unique Data/Insights").passed =>
              ResultOf("Unique Data/Insights").details
                 \in {"OK (Found keywords indicating original research).",
                      "OK (Found an HTML &lt;table&gt; element).",
                      "OK (Found an embedded data visualization)."}
        /\ ResultOf("Cited Sources").passed =>
              ResultOf("Cited Sources").details
                 \in {"OK (Found citation keywords).",
                      "OK (Found outbound links within paragraph text)."}
        /\ ResultOf("Readability").passed =>
              ResultOf("Readability").details \notin {"OK", ""}
        /\ ResultOf("Schema Found").passed =>
              ResultOf("Schema Found").details \notin {"OK", ""}

\* a page that passes the five checks with telling details and the title,
\* lists and freshness checks
C22_Witness ==
    /\ checkOutput.kind = "checks"
    /\ \A name \in TellingChecks : ResultOf(name).passed
    /\ ResultOf("Title Tag").passed
    /\ ResultOf("Clear Structure (Lists)").passed
    /\ ResultOf("Content Freshness").passed

\* the anchors of the checked page that carry an href
\* the objects of a block: its graph list if it declares one, else the
\* single value
ObjectsOf(block) ==
    IF block.value.kind = "object" /\ block.value.graph.kind = "array"
    THEN block.value.graph.items
    ELSE <<block.value>>

\* the type values the objects of a list declare, in order
TypeValues(objects) ==
    LET declaring == {i \in 1..Len(objects) :
                        /\ objects[i].kind = "object"
                        /\ objects[i].type.kind \in {"string", "array"}}
    IN  SelectIdx(objects, declaring, 1)

\* the types every parseable block of the page declares, a type list
\* opened one level
DeclaredTypes ==
    LET blocks == checkInput.doc.ldjson
        perBlock == [b \in 1..Len(blocks) |->
                        IF blocks[b].parses
                        THEN LET vals == TypeValues(ObjectsOf(blocks[b]))
                             IN  Flatten([i \in 1..Len(vals) |->
                                    IF vals[i].type.kind = "array"
                                    THEN vals[i].type.items
                                    ELSE <<vals[i].type>>])
                        ELSE <<>>]
    IN  Flatten(perBlock)

\* some block of the page holds a graph entry that is no object
GraphHasNull ==
    \E b \in 1..Len(checkInput.doc.ldjson) :
        LET objs == ObjectsOf(checkInput.doc.ldjson[b])
        IN  \E i \in 1..Len(objs) : Len(objs) > 1 /\ objs[i].kind = "null"

\* C26: getSchemaTypes returns, in document order and with duplicates, the
\* type values of every object of every parseable block (its graph list if
\* it declares one, else the single object), a type list flattened one
\* level; a block that fails to parse contributes nothing, stops no later
\* block and does not make the checks throw.
C26_SchemaExtraction ==
    checkOutput.kind = "checks" =>
        /\ getSchemaTypes(checkInput.doc) = DeclaredTypes
        /\ ResultOf("Schema Found").passed <=> DeclaredTypes # <<>>

\* the counts the Readability check works from
DetectedWords == CountWords(checkInput.doc.text)
DetectedSentences == CountSentences(checkInput.doc.text)

RECURSIVE SecondPerson(_)
SecondPerson(text) ==
    IF text = <<>> THEN 0
    ELSE (IF Head(text) \in {"you", "You", "YOU", "your", "Your", "YOUR"} THEN 1 ELSE 0)
            + SecondPerson(Tail(text))

\* some H2/H3 heading starts, trimmed and lower-cased, with a question word
QuestionHeading ==
    \E h \in 1..Len(checkInput.doc.headings) :
        LET t == Trim(checkInput.doc.headings[h])
        IN  /\ t # <<>>
            /\ \E w \in 1..Len(questionWords) :
                    TokenStartsWith(ToLowerCase(Head(t)), questionWords[w])

\* C25: Conversational Tone passes if some H2/H3 heading starts with one of
\* the 13 question words; otherwise it passes exactly when the body text
\* holds more than 5 whole-word you/your occurrences (6 pass, 5 fail).
C25_ToneDecision ==
    checkOutput.kind = "checks" =>
        /\ Len(questionWords) = 13
        /\ QuestionHeading => ResultOf("Conversational Tone").passed
        /\ ~QuestionHeading =>
                (ResultOf("Conversational Tone").passed
                    <=> SecondPerson(checkInput.doc.text) > 5)

\* a page without question heading and with exactly 5 occurrences has been
\* checked and fails
C25_Witness ==
    /\ checkOutput.kind = "checks"
    /\ ~QuestionHeading
    /\ checkInput.doc.headings # <<>>
    /\ SecondPerson(checkInput.doc.text) = 5
    /\ ~ResultOf("Conversational Tone").passed

Links == AnchorsWithHref(checkInput.doc)

\* the URL of the checked page, parsed
PageUrl == ParseUrl(checkInput.url, NoBase)

\* the hostname of a link's href resolved against the URL of the checked page
ResolvedHost(link) == HostOutcome(ParseUrl(link.href, PageUrl))

\* the links whose resolved hostname is the one of the checked page
InternalLinks ==
    {i \in 1..Len(Links) :
        ResolvedHost(Links[i]).ok /\ ResolvedHost(Links[i]).host = Hostname(PageUrl)}

\* the links whose href is relative: no URL alone, one against the page
RelativeLinks ==
    {i \in 1..Len(Links) :
        ~ParseUrl(Links[i].href, NoBase).ok /\ ParseUrl(Links[i].href, PageUrl).ok}

\* C23: the Internal Linking check passes exactly when more than 2 anchors
\* have a resolved hostname equal to the page's hostname; anchors with
\* malformed hrefs are left out of the count.
C23_StrictThreshold ==
    checkOutput.kind = "checks" =>
        (ResultOf("Internal Linking").passed <=> Cardinality(InternalLinks) > 2)

\* C27: an anchor with a relative href is resolved against the URL of the
\* checked page: it counts as an internal link, so a page with more than 2
\* of them passes Internal Linking, and a page whose links are all relative
\* has no outbound link.
C27_RelativeLinksResolve ==
    checkOutput.kind = "checks" =>
        /\ Cardinality(RelativeLinks) > 2 => ResultOf("Internal Linking").passed
        /\ Cardinality(RelativeLinks) = Len(Links) => ~ResultOf("Outbound Links").passed

-----------------------------------------------------------------------------
(* Properties of the report a crawl returns (specification Spec).          *)

\* the keys of an object, in the order `for ... in` visits them
Keys(object) == [i \in 1..Len(object) |-> object[i].name]

\* C18: fixed report shape.  Every report a crawl returns, whatever subset
\* of the secondary pages failed, has the 19 canonical check names as the
\* keys of summary.checkStats and of detailedReport, in the order in which
\* runAllChecks returns them.
C18_FixedReportShape ==
    outcome.kind = "report" =>
        /\ Keys(outcome.report.summary.checkStats) = CanonicalNames
        /\ Keys(outcome.report.detailedReport) = CanonicalNames
        /\ Len(outcome.report.detailedReport) = 19

\* a crawl whose secondary pages all failed returned the report of the home
\* page alone
C18_Witness ==
    /\ outcome.kind = "report"
    /\ outcome.report.pagesCrawled = 1
    /\ Len(errorLog) >= 2
    /\ Len(menuUrlsToCrawl) = Len(errorLog)

-----------------------------------------------------------------------------
(* Properties of the browser page and the server behind it (specification  *)
(* SpecPage).                                                              *)

\* the requests whose crawl threw
CrawlFailed(r) == analyze[r].result = "error"

\* the requests whose crawl returned a report
CrawlCompleted(r) == analyze[r].result = "report"

\* the reportId /api/analyze answered a completed request with
HandleOf(r) == analyze[r].response.body.reportId

\* the request of the last click, its answer handled
LastShown(r) == ui.clicks = r /\ analyze[r].pc = "shown"

\* C14: when crawlSite fails for a request, /api/analyze answers 500 with a
\* body that holds an error and nothing else (no summary, no averageScore, no
\* reportId), every id ever issued and every cache entry belongs to a request
\* whose crawl completed, and the page keeps its score hidden from the click
\* on, also when it showed the score of an earlier analysis before, and,
\* once the answer is handled, shows the results section with the message
\* that the analysis could not be completed.
C14_FatalCrawlNeverScored ==
    /\ \A r \in Requests :
          CrawlFailed(r) =>
             /\ analyze[r].response.status = 500
             /\ DOMAIN analyze[r].response.body = {"error"}
             /\ ui.clicks = r => ui.scoreHidden
             /\ LastShown(r) =>
                   /\ ~ui.resultsHidden
                   /\ ui.progressHidden
                   /\ ui.checklist.kind = "The analysis could not be completed."
    /\ uuidCount = Cardinality({r \in Requests : CrawlCompleted(r)})
    /\ \A id \in DOMAIN reportCache :
          \E r \in Requests : CrawlCompleted(r) /\ HandleOf(r) = id

\* the page has shown the score of a first analysis; the crawl of the second
\* failed and its answer has been handled
C14_Witness ==
    \E r \in Requests :
       /\ r > 1
       /\ CrawlCompleted(r - 1)
       /\ CrawlFailed(r)
       /\ LastShown(r)
       /\ ui.currentReportId = HandleOf(r - 1)
       /\ ui.scoreCircle # ""

\* the click handler has run to the end of its finally block and no other
\* analysis is under way
AnalysisEnded == ui.clicks > 0 /\ ui.waiting = 0

\* an interval of some call of animateProgressBar is scheduled
IntervalScheduled ==
    \E c \in 1..Len(ui.intervals) : ui.intervals[c].initial \/ ui.intervals[c].final

\* C30: whenever the answer of /api/analyze arrives, before or after the
\* opening messages are through, once displayFinalReport or the error
\* branch and the finally block have run no progress-message interval is
\* scheduled, so no timer changes progressStatus afterwards.
C30_ProgressTimersStop ==
    /\ [](AnalysisEnded => ~IntervalScheduled)
    /\ [][AnalysisEnded /\ AnalysisEnded' => ui'.progressStatus = ui.progressStatus]_vars

-----------------------------------------------------------------------------
(* Properties of the server: /api/analyze, the report cache, its timers    *)
(* and /api/send-report (specification SpecApi).                           *)

\* the step in which /api/analyze inserts the report of request r
Inserts(r) ==
    /\ analyze[r].pc = "crawling"
    /\ analyze'[r].pc = "answered"
    /\ analyze'[r].result = "report"

\* C15: under any interleaving of /api/analyze requests, the requests whose
\* crawl completed hold pairwise different ids; the step that completes a
\* request adds one key to the cache, which was not a key before, and leaves
\* the other entries as they were; and as long as the eviction timer of a
\* request has not fired, the entry under its id is its own report and start
\* URL, whatever other requests and timers have done.
C15_OneHandlePerAnalysis ==
    /\ [](\A r1, r2 \in Requests :
             CrawlCompleted(r1) /\ CrawlCompleted(r2) /\ r1 # r2 => HandleOf(r1) # HandleOf(r2))
    /\ [](\A r \in Requests :
             CrawlCompleted(r) /\ HandleOf(r) \in timers =>
                /\ HandleOf(r) \in DOMAIN reportCache
                /\ reportCache[HandleOf(r)].url = analyze[r].startUrl
                /\ Returned(reportCache[HandleOf(r)].report)
                      \in CrawlOutcomes(analyze[r].startUrl)
                /\ reportCache[HandleOf(r)].report.summary
                      = analyze[r].response.body.summary)
    /\ [][\A r \in Requests :
             Inserts(r) =>
                /\ HandleOf(r)' \notin DOMAIN reportCache
                /\ DOMAIN reportCache' = DOMAIN reportCache \cup {HandleOf(r)'}
                /\ \A id \in DOMAIN reportCache : reportCache'[id] = reportCache[id]]_vars

\* two requests for different start URLs completed, the later one first; the
\* timer of the first id has fired and the entry of the second is in the cache
C15_Witness ==
    \E r1, r2 \in Requests :
       /\ CrawlCompleted(r1) /\ CrawlCompleted(r2)
       /\ analyze[r1].startUrl # analyze[r2].startUrl
       /\ r1 > r2
       /\ HandleOf(r1) < HandleOf(r2)
       /\ HandleOf(r1) \notin DOMAIN reportCache
       /\ HandleOf(r2) \in DOMAIN reportCache

\* C16: every id inserted into the cache is eventually out of it, with its
\* timer spent, whether or not a send-report retrieved it; an id leaves the
\* cache only in the step of its own timer and does not come back; and a
\* send-report that arrives for an id that is not in the cache is answered
\* 404 'Report not found or expired.' and sends no mail.
C16_AutomaticEviction ==
    /\ \A id \in Requests :
          (id \in DOMAIN reportCache) ~> (id \notin DOMAIN reportCache /\ id \notin timers)
    /\ [][\A id \in Requests :
             /\ id \in DOMAIN reportCache /\ id \notin DOMAIN reportCache' =>
                   id \in timers /\ id \notin timers'
             /\ id <= uuidCount /\ id \notin DOMAIN reportCache =>
                   id \notin DOMAIN reportCache'
             /\ send'.count > send.count /\ send'.reportId = id
                   /\ id \notin DOMAIN reportCache =>
                   /\ send'.response = Response(404, "Report not found or expired.")
                   /\ send'.pc = "answered"
                   /\ mails' = mails]_vars

\* a report that was never retrieved has been evicted, and the send-report
\* that came for it afterwards was answered 404
C16_Witness ==
    /\ send.pc = "answered"
    /\ send.reportId \in 1..uuidCount
    /\ send.reportId \notin DOMAIN reportCache
    /\ send.userEmail # ""
    /\ send.response.status = 404
    /\ mails = <<>>

\* /api/send-report has sent the report of its handle
ReportSent ==
    /\ send.pc = "answered"
    /\ send.response.status = 200
    /\ Len(mails) > 0

\* C17: once /api/send-report has sent the report of a handle, that handle
\* is no longer in the cache.
C17_DeletedAfterSending == ReportSent => send.reportId \notin DOMAIN reportCache

\* C17, amended: a handle leaves the cache only when its retention timer
\* fires. An issued id is in the cache exactly while its timer is pending,
\* and no step of /api/send-report changes the cache or the timers, so the
\* handle of a report that has been sent is in the cache for as long as its
\* timer has not fired.
C17_DeletedOnlyByTimer ==
    /\ [](\A id \in 1..uuidCount : id \in DOMAIN reportCache <=> id \in timers)
    /\ [][send' # send => reportCache' = reportCache /\ timers' = timers]_vars
    /\ [](ReportSent /\ send.reportId \in timers => send.reportId \in DOMAIN reportCache)

\* a report has been sent and its handle is still in the cache
C17_Witness ==
    /\ ReportSent
    /\ send.reportId \in DOMAIN reportCache
    /\ mails[1].to = send.userEmail
    /\ mails[1].subject[2] = reportCache[send.reportId].url

\* C28: when /api/send-report is called with a cached reportId and a
\* userEmail and the mailer's send fails, the handler answers 500
\* 'Failed to send email.' and never 200 'Report sent successfully.'.
C28_MailFailureReported ==
    (send.pc = "answered" /\ send.mailError) =>
        /\ send.response = Response(500, "Failed to send email.")
        /\ send.response # Response(200, "Report sent successfully.")

\* a /api/send-report request is being answered in this step
Answering == send.pc # "answered" /\ send'.pc = "answered"

\* the reportId of the request is missing, was never issued, or is evicted
NotCached(id) == id = 0 \/ id \notin DOMAIN reportCache

\* C29: /api/send-report answers 404 when reportId is missing, unknown or
\* already evicted, whatever the e-mail address; it answers 400 when the
\* report exists but userEmail is missing; in both cases no e-mail is sent
\* and the report cache is unchanged.
C29_Validation ==
    /\ [][ \A id \in 0..MaxRequests, email \in UserEmails :
             SendReportArrives(id, email) =>
                /\ NotCached(id) =>
                        send'.response = Response(404, "Report not found or expired.")
                /\ (~NotCached(id) /\ email = "") =>
                        send'.response = Response(400, "Email address is required.")
                /\ (NotCached(id) \/ email = "") =>
                        /\ send'.pc = "answered"
                        /\ send'.messages = <<>>
                        /\ mails' = mails
                        /\ reportCache' = reportCache
                /\ (~NotCached(id) /\ email # "") => send'.response = NoValue ]_vars
    /\ [](send.pc = "answered" /\ send.response.status \in {404, 400} =>
                send.messages = <<>>)

\* a request naming an evicted report and no address has been answered 404
\* while another report is still cached
C29_Witness ==
    /\ send.pc = "answered"
    /\ send.response = Response(404, "Report not found or expired.")
    /\ send.userEmail = ""
    /\ send.reportId \in 1..uuidCount
    /\ send.reportId \notin DOMAIN reportCache
    /\ DOMAIN reportCache # {}
    /\ send.messages = <<>>

====
